---------------------------- MODULE Spec2Model ----------------------------
(***************************************************************************)
(* The document analysis pipeline of IRIS (utils/analysis.py,              *)
(* utils/extraction.py, utils/storage.py, main.py) as a state machine.     *)
(*                                                                         *)
(* The store is the Supabase tables documents, extracted_texts, analyses   *)
(* and heatmaps.  Every store call, storage download and scoring call of   *)
(* the code is one step of the invocation that makes it, and each of them  *)
(* may fail the way the code provides for (an exception, or an insert that *)
(* returns no data).                                                       *)
(***************************************************************************)
EXTENDS Integers, Sequences, FiniteSets, TLC

\* ------------------------------------------------------------------ bounds
MaxPages  == 1     \* pages of an uploaded PDF
MaxOps    == 3     \* upload / analyze / rerun requests in one behaviour
MaxFaults == 1     \* store and storage calls that fail in one behaviour
NumProcs  == 3     \* invocation slots (background tasks)
MaxWords  == 4     \* pieces a text given to a parser function is made of

\* The document the requests are about: every store call of the pipeline
\* is filtered by its id.
Docs  == {1}
Procs == 1..NumProcs

NULL == "None"     \* Python's None, and a key a dict does not carry

\* What page.extract_text() returns for a page: only whitespace (a scanned
\* page), a credit application, a credit application that names no amount.
RawTexts == {"ws", "app", "nocredit"}
PDFs == UNION {[1..n -> RawTexts] : n \in 0..MaxPages}

VARIABLES
    status,           \* documents.status by document id ("absent": no row)
    pdf,              \* the stored PDF of a document: its pages' raw texts
    extracted_texts,  \* table extracted_texts, in insertion order
    analyses,         \* table analyses, in insertion order
    heatmaps,         \* table heatmaps, in insertion order
    nextId,           \* the id the next analyses row gets
    inv,              \* the invocations: their position and local variables
    history,          \* the requests made so far, <<operation, document_id>>
    ml,               \* what each scoring service does with a request
    budget,           \* store and storage calls that may still fail
    dossiers,         \* table dossiers, in insertion order
    dossier_files,    \* bucket dossiers: the paths of the stored files
    gen,              \* the request POST /dossier/generate under way
    call,             \* a call of a function examined on its own
    user_data         \* the store as POST /logout sees it: who has rows in
                      \* each table and files in each bucket, the profiles

vars == <<status, pdf, extracted_texts, analyses, heatmaps, nextId, inv, history,
          ml, budget, dossiers, dossier_files, gen, call, user_data>>

\* What the pipeline never writes: the dossiers, and the call of a parser
\* function examined on its own.
aside == <<dossiers, dossier_files, gen, call, user_data>>

\* ----------------------------------------------------------------- helpers
RECURSIVE SelectRows(_, _)
\* The rows of a table (a sequence) that belong to document d.
SelectRows(table, d) ==
    IF table = <<>> THEN <<>>
    ELSE IF Head(table).document_id = d
         THEN <<Head(table)>> \o SelectRows(Tail(table), d)
         ELSE SelectRows(Tail(table), d)

RECURSIVE DeleteRows(_, _)
\* table.delete().eq("document_id", d): the table without document d's rows.
DeleteRows(table, d) ==
    IF table = <<>> THEN <<>>
    ELSE IF Head(table).document_id = d
         THEN DeleteRows(Tail(table), d)
         ELSE <<Head(table)>> \o DeleteRows(Tail(table), d)

\* documents.update({"status": s}).eq("id", d): no row, no change.
UpdateStatus(d, s) ==
    IF status[d] = "absent" THEN status ELSE [status EXCEPT ![d] = s]

\* An invocation that is neither waiting to start nor ended.
Active(p)  == inv[p].pc \notin {"idle", "returned", "raised"}
Ended(p)   == inv[p].pc \in {"returned", "raised"}
Quiet      == \A p \in Procs : ~Active(p)
\* The slot a new invocation takes: the first one that is free.
FreeSlot(p) == ~Active(p) /\ \A q \in Procs : q < p => Active(q)

\* The local variables of an invocation before its first step.
Fresh(op, d, pc) ==
    [pc |-> pc, op |-> op, document_id |-> d,
     page |-> 1, texts |-> <<>>,
     parsed_fields |-> NULL, validation_errors |-> <<>>,
     risk_result |-> NULL, compliance_result |-> NULL,
     crossverify_result |-> NULL,
     analysis_id |-> 0, heatmap_path |-> NULL, exc |-> NULL,
     \* history of the invocation, read by the properties only
     ran |-> FALSE, fails |-> {}, ins |-> <<>>, calls |-> <<>>]

\* No dossier is being generated, no parser function is being examined.
NoRequest == [pc |-> "idle"]
NoCall    == [fn |-> "none"]

\* Nobody has a row, a file or a profile.
NoUserData ==
    [rows |-> [t \in {"extracted_texts", "heatmaps", "analyses", "dossiers",
                      "documents", "blockchain_certificates"} |-> {}],
     files |-> [b \in {"documents", "heatmaps", "dossiers"} |-> {}],
     profiles |-> {}, remember_me |-> {},
     audit_logs |-> <<>>]

\* The tables of the pipeline are empty and nothing runs.
PipelineTables ==
    /\ status = [d \in Docs |-> "absent"]
    /\ pdf = [d \in Docs |-> <<>>]
    /\ extracted_texts = <<>>
    /\ analyses = <<>>
    /\ heatmaps = <<>>
    /\ nextId = 1
    /\ inv = [p \in Procs |-> Fresh("none", 0, "idle")]
    /\ history = <<>>
    /\ dossiers = <<>>
    /\ dossier_files = {}
    /\ gen = NoRequest

\* The tables are empty and nothing runs.
EmptyTables == PipelineTables /\ user_data = NoUserData

\* The store is empty and nothing runs.
EmptyStore == EmptyTables /\ call = NoCall

\* The outcomes a store or storage call can have: it fails only while the
\* behaviour's budget of failures lasts.
Outcomes(all) == IF budget > 0 THEN all ELSE {"ok"}
Spend(outcome) == budget' = IF outcome = "ok" THEN budget ELSE budget - 1


\* ------------------------------------------------------------ extraction
\* extract_and_store_texts: text = page.extract_text(); a None or empty
\* text becomes ""; then text.strip().
Strip(raw) == IF raw \in {"none", "ws"} THEN "" ELSE raw

RECURSIVE FullText(_)
\* run_full_analysis_background: "\n\n".join of the page texts that are not
\* empty, as the sequence of the texts joined.
FullText(texts) ==
    IF texts = <<>> THEN <<>>
    ELSE IF Head(texts)[2] # ""
         THEN <<Head(texts)[2]>> \o FullText(Tail(texts))
         ELSE FullText(Tail(texts))

\* A variant that takes no text for blank; C5 rejects it.
IsBlank_never(full_text) == FALSE

\* full_text.strip() is empty: the joined texts are stripped and not empty,
\* so the join is blank exactly when nothing was joined.
IsBlank(full_text) == full_text = <<>>

\* ------------------------------------------------------- parse / validate
\* parse_credit_fields on the text classes of the model: a credit
\* application yields every field, one that names no amount leaves
\* credit_amount None.  A number is <<n>>, and <<>> when it is None.
parse_credit_fields(full_text) ==
    [age |-> <<45>>, gender |-> "male", job |-> "skilled", housing |-> "own",
     saving_accounts |-> "little", checking_account |-> "moderate",
     credit_amount |-> IF \E i \in 1..Len(full_text) : full_text[i] = "app"
                       THEN <<50000>> ELSE <<>>,
     duration |-> <<24>>, purpose |-> "car",
     validation_errors_key |-> NULL]

\* The enumerations of validate_parsed_fields.
valid_jobs     == {"unemployed", "unskilled", "skilled", "highly skilled"}
valid_housing  == {"free", "rent", "own"}
valid_savings  == {"none", "little", "moderate", "quite rich", "rich"}
valid_checking == {"none", "little", "moderate", "rich"}
valid_purposes == {"business", "car", "domestic appliances", "education",
                   "furniture/equipment", "radio/TV", "repairs",
                   "vacation/others"}

\* The message of each check of validate_parsed_fields, <<>> when the
\* field passes it.
AgeErrors(fields) ==
    IF fields.age = <<>> THEN <<"Age not found in document">>
    ELSE IF ~(18 <= fields.age[1] /\ fields.age[1] <= 100)
         THEN <<"Age " \o ToString(fields.age[1])
                \o " out of valid range (18-100)">>
         ELSE <<>>

GenderErrors(fields) ==
    IF fields.gender \notin {"male", "female"}
    THEN <<"Gender must be 'male' or 'female'">> ELSE <<>>

JobErrors(fields) ==
    IF fields.job \notin valid_jobs
    THEN <<"Job '" \o fields.job \o "' must be one of ['unemployed', "
           \o "'unskilled', 'skilled', 'highly skilled']">>
    ELSE <<>>

HousingErrors(fields) ==
    IF fields.housing \notin valid_housing
    THEN <<"Housing '" \o fields.housing
           \o "' must be one of ['free', 'rent', 'own']">>
    ELSE <<>>

SavingsErrors(fields) ==
    IF fields.saving_accounts \notin valid_savings
    THEN <<"Saving accounts must be one of ['none', 'little', 'moderate', "
           \o "'quite rich', 'rich']">>
    ELSE <<>>

CheckingErrors(fields) ==
    IF fields.checking_account \notin valid_checking
    THEN <<"Checking account must be one of ['none', 'little', 'moderate', "
           \o "'rich']">>
    ELSE <<>>

CreditAmountErrors(fields) ==
    IF fields.credit_amount = <<>>
    THEN <<"Credit amount not found in document">>
    ELSE IF fields.credit_amount[1] <= 0
         THEN <<"Credit amount must be positive">>
         ELSE <<>>

DurationErrors(fields) ==
    IF fields.duration = <<>>
    THEN <<"Loan duration not found in document">>
    ELSE IF fields.duration[1] <= 0
         THEN <<"Duration must be positive (in months)">>
         ELSE <<>>

PurposeErrors(fields) ==
    IF fields.purpose \notin valid_purposes
    THEN <<"Purpose must be one of ['business', 'car', "
           \o "'domestic appliances', 'education', 'furniture/equipment', "
           \o "'radio/TV', 'repairs', 'vacation/others']">>
    ELSE <<>>

\* A variant that stops at the first field that fails; C17 rejects it.
validate_parsed_fields_first_only(fields) ==
    LET errors == AgeErrors(fields) \o GenderErrors(fields)
                  \o JobErrors(fields) \o HousingErrors(fields)
                  \o SavingsErrors(fields) \o CheckingErrors(fields)
                  \o CreditAmountErrors(fields) \o DurationErrors(fields)
                  \o PurposeErrors(fields)
    IN  <<Len(errors) = 0,
          IF errors = <<>> THEN <<>> ELSE <<Head(errors)>>>>

\* validate_parsed_fields: the checks append their messages to errors one
\* after the other; the result is (is_valid, errors).
validate_parsed_fields(fields) ==
    LET errors == AgeErrors(fields) \o GenderErrors(fields)
                  \o JobErrors(fields) \o HousingErrors(fields)
                  \o SavingsErrors(fields) \o CheckingErrors(fields)
                  \o CreditAmountErrors(fields) \o DurationErrors(fields)
                  \o PurposeErrors(fields)
    IN  <<Len(errors) = 0, errors>>

\* ----------------------------------------------------- text and patterns
\* A text is the sequence of its characters.  The characters \w matches,
\* the characters \s matches, and str.lower on the letters of the model.
Letters ==
    {"a", "b", "c", "d", "e", "f", "g", "h", "i", "j", "k", "l", "m", "n",
     "o", "p", "q", "r", "s", "t", "u", "v", "w", "x", "y", "z"}
Capitals ==
    {"A", "B", "C", "D", "E", "F", "G", "H", "I", "J", "K", "L", "M",
     "N", "O", "P", "Q", "R", "S", "T", "U", "V", "W", "X", "Y", "Z"}
Digits == {"0", "1", "2", "3", "4", "5", "6", "7", "8", "9"}
IsWordChar(c) == c \in Letters \cup Capitals \cup Digits \cup {"_"}
IsSpace(c) == c \in {" ", "\n", "\t"}
IsDigit(c) == c \in Digits

LowerCase ==
    ("A" :> "a") @@ ("B" :> "b") @@ ("C" :> "c") @@ ("D" :> "d") @@ ("E"
    :> "e") @@ ("F" :> "f") @@ ("G" :> "g") @@ ("H" :> "h") @@ ("I" :>
    "i") @@ ("J" :> "j") @@ ("K" :> "k") @@ ("L" :> "l") @@ ("M" :> "m")
    @@ ("N" :> "n") @@ ("O" :> "o") @@ ("P" :> "p") @@ ("Q" :> "q") @@
    ("R" :> "r") @@ ("S" :> "s") @@ ("T" :> "t") @@ ("U" :> "u") @@ ("V"
    :> "v") @@ ("W" :> "w") @@ ("X" :> "x") @@ ("Y" :> "y") @@ ("Z" :>
    "z")

LowerChar(c) == IF c \in Capitals THEN LowerCase[c] ELSE c

\* text.lower(), as a sequence.
Lower(text) == [i \in 1..Len(text) |-> LowerChar(text[i])] \o <<>>

RECURSIVE MatchEnds(_, _, _)
\* The positions at which a match of the pattern that starts at position i
\* of the text can end (the position after its last character).  An
\* element of a pattern is a character or \s+.
MatchEnds(text, i, pattern) ==
    IF pattern = <<>> THEN {i}
    ELSE IF Head(pattern) = "\\s+"
    THEN UNION {MatchEnds(text, k, Tail(pattern)) :
                  k \in {k \in (i + 1)..(Len(text) + 1) :
                           \A m \in i..(k - 1) : IsSpace(text[m])}}
    ELSE IF i <= Len(text) /\ text[i] = Head(pattern)
    THEN MatchEnds(text, i + 1, Tail(pattern))
    ELSE {}

\* \b at position i: exactly one of the characters before and at i is a
\* word character.
WordBoundary(text, i) ==
    (i > 1 /\ IsWordChar(text[i - 1]))
        # (i <= Len(text) /\ IsWordChar(text[i]))

\* re.search(r'\b(a|b|...)\b', text) finds a match.
SearchWords(text, alternatives) ==
    \E i \in 1..Len(text), a \in alternatives :
        /\ WordBoundary(text, i)
        /\ \E j \in MatchEnds(text, i, a) : WordBoundary(text, j)

\* keyword in text.
Contains(text, keyword) ==
    \E i \in 1..Len(text) : MatchEnds(text, i, keyword) # {}

\* ---------------------------------------------------- classify_job_category
unemployed_patterns ==
    { <<"u", "n", "e", "m", "p", "l", "o", "y", "e", "d">>,
      <<"j", "o", "b", "l", "e", "s", "s">>,
      <<"n", "o", "t", "\\s+", "w", "o", "r", "k", "i", "n", "g">>,
      <<"n", "o", "\\s+", "j", "o", "b">>,
      <<"n", "o", "t", "\\s+", "e", "m", "p", "l", "o", "y", "e", "d">> }

highly_skilled_keywords ==
    { <<"e", "n", "g", "i", "n", "e", "e", "r">>,
      <<"d", "o", "c", "t", "o", "r">>,
      <<"l", "a", "w", "y", "e", "r">>,
      <<"a", "r", "c", "h", "i", "t", "e", "c", "t">>,
      <<"p", "r", "o", "f", "e", "s", "s", "o", "r">>,
      <<"s", "u", "r", "g", "e", "o", "n">>,
      <<"m", "a", "n", "a", "g", "e", "r">>,
      <<"d", "i", "r", "e", "c", "t", "o", "r">>,
      <<"c", "e", "o">>,
      <<"c", "f", "o">>,
      <<"c", "t", "o">>,
      <<"e", "x", "e", "c", "u", "t", "i", "v", "e">>,
      <<"v", "p">>,
      <<"c", "o", "n", "s", "u", "l", "t", "a", "n", "t">>,
      <<"a", "n", "a", "l", "y", "s", "t">>,
      <<"s", "c", "i", "e", "n", "t", "i", "s", "t">>,
      <<"r", "e", "s", "e", "a", "r", "c", "h", "e", "r">>,
      <<"s", "p", "e", "c", "i", "a", "l", "i", "s", "t">>,
      <<"c", "h", "a", "r", "t", "e", "r", "e", "d", " ", "a", "c", "c", "o", "u", "n", "t", "a", "n", "t">>,
      <<"c", "a">>,
      <<"m", "b", "a">>,
      <<"p", "h", "d">>,
      <<"m", "d">> }

skilled_keywords ==
    { <<"t", "e", "c", "h", "n", "i", "c", "i", "a", "n">>,
      <<"n", "u", "r", "s", "e">>,
      <<"t", "e", "a", "c", "h", "e", "r">>,
      <<"a", "c", "c", "o", "u", "n", "t", "a", "n", "t">>,
      <<"p", "r", "o", "g", "r", "a", "m", "m", "e", "r">>,
      <<"d", "e", "v", "e", "l", "o", "p", "e", "r">>,
      <<"e", "l", "e", "c", "t", "r", "i", "c", "i", "a", "n">>,
      <<"p", "l", "u", "m", "b", "e", "r">>,
      <<"m", "e", "c", "h", "a", "n", "i", "c">>,
      <<"c", "a", "r", "p", "e", "n", "t", "e", "r">>,
      <<"c", "h", "e", "f">>,
      <<"c", "o", "o", "k">>,
      <<"o", "f", "f", "i", "c", "e", "r">>,
      <<"s", "u", "p", "e", "r", "v", "i", "s", "o", "r">>,
      <<"c", "o", "o", "r", "d", "i", "n", "a", "t", "o", "r">>,
      <<"a", "d", "m", "i", "n", "i", "s", "t", "r", "a", "t", "o", "r">>,
      <<"d", "e", "s", "i", "g", "n", "e", "r">>,
      <<"c", "l", "e", "r", "k">>,
      <<"c", "a", "s", "h", "i", "e", "r">>,
      <<"o", "p", "e", "r", "a", "t", "o", "r">>,
      <<"d", "r", "i", "v", "e", "r">>,
      <<"s", "a", "l", "e", "s", "m", "a", "n">> }

unskilled_keywords ==
    { <<"h", "e", "l", "p", "e", "r">>,
      <<"a", "s", "s", "i", "s", "t", "a", "n", "t">>,
      <<"c", "l", "e", "a", "n", "e", "r">>,
      <<"g", "u", "a", "r", "d">>,
      <<"s", "e", "c", "u", "r", "i", "t", "y">>,
      <<"l", "a", "b", "o", "r", "e", "r">>,
      <<"l", "a", "b", "o", "u", "r", "e", "r">>,
      <<"w", "o", "r", "k", "e", "r">>,
      <<"p", "e", "o", "n">>,
      <<"a", "t", "t", "e", "n", "d", "a", "n", "t">>,
      <<"w", "a", "t", "c", "h", "m", "a", "n">>,
      <<"h", "o", "u", "s", "e", "k", "e", "e", "p", "i", "n", "g">>,
      <<"d", "a", "i", "l", "y", " ", "w", "a", "g", "e">> }

employment_patterns ==
    { <<"e", "m", "p", "l", "o", "y", "e", "d">>,
      <<"o", "c", "c", "u", "p", "a", "t", "i", "o", "n">>,
      <<"p", "r", "o", "f", "e", "s", "s", "i", "o", "n">>,
      <<"j", "o", "b">>,
      <<"w", "o", "r", "k">>,
      <<"w", "o", "r", "k", "i", "n", "g">> }

\* A variant that looks for the keywords of the categories before it looks
\* for the unemployed patterns; C19 rejects it.
classify_job_category_keywords_first(text) ==
    LET text_lower == Lower(text)
    IN  IF \E keyword \in highly_skilled_keywords : Contains(text_lower, keyword)
        THEN "highly skilled"
        ELSE IF \E keyword \in skilled_keywords : Contains(text_lower, keyword)
        THEN "skilled"
        ELSE IF \E keyword \in unskilled_keywords : Contains(text_lower, keyword)
        THEN "unskilled"
        ELSE IF SearchWords(text_lower, unemployed_patterns)
        THEN "unemployed"
        ELSE IF SearchWords(text_lower, employment_patterns)
        THEN "skilled"
        ELSE "unemployed"

\* A variant that looks for the skilled keywords before the highly skilled
\* ones; C27 rejects it.
classify_job_category_skilled_first(text) ==
    LET text_lower == Lower(text)
    IN  IF SearchWords(text_lower, unemployed_patterns)
        THEN "unemployed"
        ELSE IF \E keyword \in skilled_keywords : Contains(text_lower, keyword)
        THEN "skilled"
        ELSE IF \E keyword \in highly_skilled_keywords : Contains(text_lower, keyword)
        THEN "highly skilled"
        ELSE IF \E keyword \in unskilled_keywords : Contains(text_lower, keyword)
        THEN "unskilled"
        ELSE IF SearchWords(text_lower, employment_patterns)
        THEN "skilled"
        ELSE "unemployed"

\* classify_job_category: the unemployed patterns first, then the keyword
\* lists in their order, then the mention of an employment.
classify_job_category(text) ==
    LET text_lower == Lower(text)
    IN  IF SearchWords(text_lower, unemployed_patterns)
        THEN "unemployed"
        ELSE IF \E keyword \in highly_skilled_keywords : Contains(text_lower, keyword)
        THEN "highly skilled"
        ELSE IF \E keyword \in skilled_keywords : Contains(text_lower, keyword)
        THEN "skilled"
        ELSE IF \E keyword \in unskilled_keywords : Contains(text_lower, keyword)
        THEN "unskilled"
        ELSE IF SearchWords(text_lower, employment_patterns)
        THEN "skilled"
        ELSE "unemployed"

\* ------------------------------------------------------------ extract_age
\* An element of a pattern: between min and max characters of a set, as
\* many as possible first, kept as group number group when that is not 0.
\* A max of -1 is no limit.
Lit(c) == [chars |-> {c}, min |-> 1, max |-> 1, group |-> 0]
OneOf(chars) == [chars |-> chars, min |-> 1, max |-> 1, group |-> 0]
Opt(c) == [chars |-> {c}, min |-> 0, max |-> 1, group |-> 0]
OneOrMore(chars) == [chars |-> chars, min |-> 1, max |-> -1, group |-> 0]
ZeroOrMore(chars) == [chars |-> chars, min |-> 0, max |-> -1, group |-> 0]
DigitsGroup(min, max, group) ==
    [chars |-> Digits, min |-> min, max |-> max, group |-> group]

ColonOrSpace == {":", " ", "\n", "\t"}
Spaces == {" ", "\n", "\t"}

\* The patterns of extract_age, in the order in which they are tried.
age_patterns ==
    << <<Lit("a"), Lit("g"), Lit("e"), OneOrMore(ColonOrSpace), DigitsGroup(2, 3, 1)>>,
       <<DigitsGroup(2, 2, 1), ZeroOrMore(Spaces), Lit("y"), Lit("e"), Lit("a"), Lit("r"),
         Opt("s"), ZeroOrMore(Spaces), Lit("o"), Lit("l"), Lit("d")>>,
       <<Lit("a"), Lit("g"), Lit("e"), ZeroOrMore(ColonOrSpace), DigitsGroup(2, 3, 1),
         ZeroOrMore(Spaces), Lit("y"), Lit("e"), Lit("a"), Lit("r"), Opt("s")>>,
       <<Lit("d"), Lit("o"), Lit("b"), OneOrMore(ColonOrSpace),
         DigitsGroup(1, 2, 1), OneOf({"/", "-"}),
         DigitsGroup(1, 2, 2), OneOf({"/", "-"}), DigitsGroup(4, 4, 3)>>,
       <<Lit("d"), Lit("a"), Lit("t"), Lit("e"), OneOrMore(Spaces), Lit("o"), Lit("f"),
         OneOrMore(Spaces), Lit("b"), Lit("i"), Lit("r"), Lit("t"), Lit("h"), OneOrMore(ColonOrSpace),
         DigitsGroup(1, 2, 1), OneOf({"/", "-"}),
         DigitsGroup(1, 2, 2), OneOf({"/", "-"}), DigitsGroup(4, 4, 3)>> >>

NoMatch == [end |-> 0, groups |-> <<>>]

\* The number of characters of the set that the text has from position i
\* on, up to limit.
Run_length(text, i, chars, limit) ==
    LET last  == IF i + limit - 1 < Len(text) THEN i + limit - 1 ELSE Len(text)
        stops == {k \in i..last : text[k] \notin chars}
    IN  IF i > Len(text) \/ text[i] \notin chars THEN 0
        ELSE IF stops = {} THEN last - i + 1
        ELSE (CHOOSE k \in stops : \A j \in i..(k - 1) : j \notin stops) - i

\* The other elements of a pattern: alternatives, tried in their order; a
\* part that may be missing; a part repeated any number of times; the
\* start and the end of a group; \b.
Alt(alternatives) == [alts |-> alternatives]
Maybe(pattern) == [alts |-> <<pattern, <<>>>>]
Star(pattern) == [star |-> pattern]
Open(group) == [open |-> group]
Close(group) == [close |-> group]
Boundary == [boundary |-> TRUE]
Lits(chars) == [k \in 1..Len(chars) |-> Lit(chars[k])]

RECURSIVE MatchFrom(_, _, _, _)
RECURSIVE Backtrack(_, _, _, _, _)
RECURSIVE FirstAlternative(_, _, _, _, _)
\* The match re finds for the pattern at position i of the text: the
\* position after its end and its groups, or NoMatch.  An element takes
\* as many characters as it can and gives them back one by one while the
\* rest of the pattern does not match; of alternatives the first with
\* which the rest of the pattern matches is taken.
MatchFrom(text, i, pattern, groups) ==
    IF pattern = <<>> THEN [end |-> i, groups |-> groups]
    ELSE LET e == Head(pattern)
             rest == Tail(pattern)
         IN  CASE "chars" \in DOMAIN e ->
                    Backtrack(text, i, pattern, groups,
                              Run_length(text, i, e.chars,
                                  IF e.max = -1 THEN Len(text) ELSE e.max))
               [] "alts" \in DOMAIN e ->
                    FirstAlternative(text, i, e.alts, rest, groups)
               [] "star" \in DOMAIN e ->
                    FirstAlternative(text, i,
                        <<e.star \o <<e>>, <<>>>>, rest, groups)
               [] "open" \in DOMAIN e ->
                    MatchFrom(text, i, rest,
                              [groups EXCEPT ![e.open] = <<i>>])
               [] "close" \in DOMAIN e ->
                    MatchFrom(text, i, rest,
                              [groups EXCEPT ![e.close] =
                                  SubSeq(text, @[1], i - 1)])
               [] "boundary" \in DOMAIN e ->
                    IF WordBoundary(text, i)
                    THEN MatchFrom(text, i, rest, groups)
                    ELSE NoMatch

Backtrack(text, i, pattern, groups, count) ==
    LET e == Head(pattern)
        kept == IF e.group = 0 THEN groups
                ELSE [groups EXCEPT ![e.group] = SubSeq(text, i, i + count - 1)]
        m == MatchFrom(text, i + count, Tail(pattern), kept)
    IN  IF count < e.min THEN NoMatch
        ELSE IF m.end # 0 THEN m
        ELSE Backtrack(text, i, pattern, groups, count - 1)

FirstAlternative(text, i, alternatives, rest, groups) ==
    IF alternatives = <<>> THEN NoMatch
    ELSE LET m == MatchFrom(text, i, Head(alternatives) \o rest, groups)
         IN  IF m.end # 0 THEN m
             ELSE FirstAlternative(text, i, Tail(alternatives), rest, groups)

\* re.search(pattern, text): the match at the first position that has one.
Search(text, pattern) ==
    LET at_start == MatchFrom(text, 1, pattern, <<<<>>, <<>>, <<>>>>)
        starts == {i \in 2..(Len(text) + 1) :
                     MatchFrom(text, i, pattern, <<<<>>, <<>>, <<>>>>).end # 0}
    IN  IF at_start.end # 0 THEN at_start
        ELSE IF starts = {} THEN NoMatch
        ELSE MatchFrom(text,
                       CHOOSE i \in starts : \A j \in starts : i <= j,
                       pattern, <<<<>>, <<>>, <<>>>>)

DigitValue(c) == CHOOSE n \in 0..9 : ToString(n) = c

RECURSIVE ToInt(_)
\* int(s) of a string of digits.
ToInt(digits) ==
    IF digits = <<>> THEN 0
    ELSE 10 * ToInt(SubSeq(digits, 1, Len(digits) - 1))
         + DigitValue(digits[Len(digits)])

\* datetime.now().year
CurrentYear == 2026

IsDobPattern(pattern) == \E k \in 1..Len(pattern) : pattern[k].group = 3

RECURSIVE TryPatterns(_, _)
\* The loop of extract_age from pattern k on: a match whose age is
\* between 18 and 100 is returned, any other match is passed over.
TryPatterns(text, k) ==
    IF k > Len(age_patterns) THEN <<>>
    ELSE LET match == Search(text, age_patterns[k])
             year  == ToInt(match.groups[3])
             age   == IF IsDobPattern(age_patterns[k])
                      THEN CurrentYear - year
                      ELSE ToInt(match.groups[1])
         IN  IF match = NoMatch THEN TryPatterns(text, k + 1)
             ELSE IF IsDobPattern(age_patterns[k]) /\ ~(year > 1900)
             THEN TryPatterns(text, k + 1)
             ELSE IF 18 <= age /\ age <= 100 THEN <<age>>
             ELSE TryPatterns(text, k + 1)

\* extract_age: the patterns are searched in the text in lower case.
extract_age(text) == TryPatterns(Lower(text), 1)

\* --------------------------------------------------- classify_loan_purpose
\* The dictionary purposes, in the order of its keys.
purposes ==
    << [purpose |-> "business", keywords |->
          { <<"b", "u", "s", "i", "n", "e", "s", "s">>,
            <<"e", "n", "t", "e", "r", "p", "r", "i", "s", "e">>,
            <<"s", "t", "a", "r", "t", "u", "p">>,
            <<"c", "o", "m", "m", "e", "r", "c", "i", "a", "l">>,
            <<"s", "h", "o", "p">>,
            <<"o", "f", "f", "i", "c", "e">> }],
       [purpose |-> "car", keywords |->
          { <<"c", "a", "r">>,
            <<"v", "e", "h", "i", "c", "l", "e">>,
            <<"a", "u", "t", "o", "m", "o", "b", "i", "l", "e">>,
            <<"a", "u", "t", "o">>,
            <<"b", "i", "k", "e">>,
            <<"m", "o", "t", "o", "r", "c", "y", "c", "l", "e">> }],
       [purpose |-> "domestic appliances", keywords |->
          { <<"a", "p", "p", "l", "i", "a", "n", "c", "e">>,
            <<"r", "e", "f", "r", "i", "g", "e", "r", "a", "t", "o", "r">>,
            <<"f", "r", "i", "d", "g", "e">>,
            <<"w", "a", "s", "h", "i", "n", "g", " ", "m", "a", "c", "h", "i", "n", "e">>,
            <<"m", "i", "c", "r", "o", "w", "a", "v", "e">>,
            <<"a", "c">>,
            <<"a", "i", "r", " ", "c", "o", "n", "d", "i", "t", "i", "o", "n", "e", "r">> }],
       [purpose |-> "education", keywords |->
          { <<"e", "d", "u", "c", "a", "t", "i", "o", "n">>,
            <<"s", "t", "u", "d", "y">>,
            <<"c", "o", "u", "r", "s", "e">>,
            <<"t", "u", "i", "t", "i", "o", "n">>,
            <<"s", "c", "h", "o", "o", "l">>,
            <<"c", "o", "l", "l", "e", "g", "e">>,
            <<"u", "n", "i", "v", "e", "r", "s", "i", "t", "y">>,
            <<"t", "r", "a", "i", "n", "i", "n", "g">> }],
       [purpose |-> "furniture/equipment", keywords |->
          { <<"f", "u", "r", "n", "i", "t", "u", "r", "e">>,
            <<"e", "q", "u", "i", "p", "m", "e", "n", "t">>,
            <<"f", "u", "r", "n", "i", "s", "h", "i", "n", "g">>,
            <<"s", "o", "f", "a">>,
            <<"b", "e", "d">>,
            <<"t", "a", "b", "l", "e">> }],
       [purpose |-> "radio/TV", keywords |->
          { <<"r", "a", "d", "i", "o">>,
            <<"t", "v">>,
            <<"t", "e", "l", "e", "v", "i", "s", "i", "o", "n">>,
            <<"e", "l", "e", "c", "t", "r", "o", "n", "i", "c", "s">>,
            <<"a", "u", "d", "i", "o">>,
            <<"v", "i", "d", "e", "o">> }],
       [purpose |-> "repairs", keywords |->
          { <<"r", "e", "p", "a", "i", "r">>,
            <<"r", "e", "n", "o", "v", "a", "t", "i", "o", "n">>,
            <<"m", "a", "i", "n", "t", "e", "n", "a", "n", "c", "e">>,
            <<"f", "i", "x">>,
            <<"r", "e", "m", "o", "d", "e", "l">> }] >>

\* r'purpose[:\s]*([a-zA-Z\s/]+)'
purpose_pattern ==
    <<Lit("p"), Lit("u"), Lit("r"), Lit("p"), Lit("o"), Lit("s"), Lit("e"),
      ZeroOrMore(ColonOrSpace),
      [chars |-> Letters \cup Capitals \cup Spaces \cup {"/"},
       min |-> 1, max |-> -1, group |-> 1]>>

RECURSIVE StripSpaces(_)
\* str.strip()
StripSpaces(s) ==
    IF s = <<>> THEN s
    ELSE IF IsSpace(Head(s)) THEN StripSpaces(Tail(s))
    ELSE IF IsSpace(s[Len(s)]) THEN StripSpaces(SubSeq(s, 1, Len(s) - 1))
    ELSE s

\* The keys of purposes that have a keyword in the text, and the first of
\* them.
PurposesIn(text) ==
    {k \in 1..Len(purposes) :
        \E keyword \in purposes[k].keywords : Contains(text, keyword)}

FirstPurposeIn(text) ==
    purposes[CHOOSE k \in PurposesIn(text) :
                 \A j \in PurposesIn(text) : k <= j].purpose

\* A variant whose default is the first key of purposes; C21 rejects it.
classify_loan_purpose_first_key(text) ==
    LET text_lower   == Lower(text)
        purpose_match == Search(text_lower, purpose_pattern)
        purpose_text  == StripSpaces(purpose_match.groups[1])
    IN  IF purpose_match # NoMatch /\ PurposesIn(purpose_text) # {}
        THEN FirstPurposeIn(purpose_text)
        ELSE IF PurposesIn(text_lower) # {}
        THEN FirstPurposeIn(text_lower)
        ELSE purposes[1].purpose

\* classify_loan_purpose: the keywords are looked for in the purpose
\* field when the text has one, then in the whole text.
classify_loan_purpose(text) ==
    LET text_lower   == Lower(text)
        purpose_match == Search(text_lower, purpose_pattern)
        purpose_text  == StripSpaces(purpose_match.groups[1])
    IN  IF purpose_match # NoMatch /\ PurposesIn(purpose_text) # {}
        THEN FirstPurposeIn(purpose_text)
        ELSE IF PurposesIn(text_lower) # {}
        THEN FirstPurposeIn(text_lower)
        ELSE "vacation/others"

\* ---------------------------------------------------------- extract_gender
\* r'\bgender[:\s]*(male|m)\b' and r'\bgender[:\s]*(female|f)\b'
gender_male_pattern ==
    <<Boundary>> \o Lits(<<"g", "e", "n", "d", "e", "r">>) \o
    <<ZeroOrMore(ColonOrSpace), Alt(<<Lits(<<"m", "a", "l", "e">>), Lits(<<"m">>)>>), Boundary>>

gender_female_pattern ==
    <<Boundary>> \o Lits(<<"g", "e", "n", "d", "e", "r">>) \o
    <<ZeroOrMore(ColonOrSpace), Alt(<<Lits(<<"f", "e", "m", "a", "l", "e">>), Lits(<<"f">>)>>), Boundary>>

male_titles ==
    { <<"m", "r", ".">>,
      <<"m", "r">>,
      <<"s", "i", "r">> }

female_titles_but_madam ==
    { <<"m", "r", "s", ".">>,
      <<"m", "r", "s">>,
      <<"m", "s", ".">>,
      <<"m", "s">>,
      <<"m", "i", "s", "s">> }

female_titles == female_titles_but_madam \cup {<<"m", "a", "d", "a", "m">>}

Found(text, pattern) == Search(text, pattern).end # 0

extract_gender(text) ==
    LET text_lower == Lower(text)
    IN  IF Found(text_lower, gender_male_pattern) THEN "male"
        ELSE IF Found(text_lower, gender_female_pattern) THEN "female"
        ELSE IF SearchWords(text_lower, male_titles)
                /\ ~SearchWords(text_lower, female_titles_but_madam)
        THEN "male"
        ELSE IF SearchWords(text_lower, female_titles) THEN "female"
        ELSE NULL

\* --------------------------------------------------- classify_housing_type
own_patterns ==
    { <<"o", "w", "n">>,
      <<"o", "w", "n", "e", "d">>,
      <<"o", "w", "n", "e", "r">>,
      <<"s", "e", "l", "f", "-", "o", "w", "n", "e", "d">>,
      <<"s", "e", "l", "f", " ", "o", "w", "n", "e", "d">>,
      <<"p", "r", "o", "p", "e", "r", "t", "y", "\\s+", "o", "w", "n", "e", "r">> }

rent_patterns ==
    { <<"r", "e", "n", "t">>,
      <<"r", "e", "n", "t", "e", "d">>,
      <<"r", "e", "n", "t", "a", "l">>,
      <<"t", "e", "n", "a", "n", "t">>,
      <<"l", "e", "a", "s", "e">>,
      <<"l", "e", "a", "s", "e", "d">>,
      <<"r", "e", "n", "t", "i", "n", "g">> }

free_patterns ==
    { <<"f", "r", "e", "e">>,
      <<"p", "r", "o", "v", "i", "d", "e", "d">>,
      <<"c", "o", "m", "p", "a", "n", "y", "\\s+", "h", "o", "u", "s", "i", "n", "g">>,
      <<"p", "a", "r", "e", "n", "t", "s">>,
      <<"f", "a", "m", "i", "l", "y", "\\s+", "h", "o", "u", "s", "e">>,
      <<"n", "o", "\\s+", "r", "e", "n", "t">> }

classify_housing_type(text) ==
    LET text_lower == Lower(text)
    IN  IF SearchWords(text_lower, own_patterns) THEN "own"
        ELSE IF SearchWords(text_lower, rent_patterns) THEN "rent"
        ELSE IF SearchWords(text_lower, free_patterns) THEN "free"
        ELSE "rent"

\* ------------------------------------------------------- amounts of money
\* (?:rs\.?|₹|inr|\$)
Currency ==
    Alt(<<Lits(<<"r", "s">>) \o <<Opt(".")>>, <<Lit("₹")>>,
          Lits(<<"i", "n", "r">>), <<Lit("$")>>>>)

\* (\d+(?:,\d{3})*(?:\.\d{2})?) as group 1
Number ==
    <<Open(1), OneOrMore(Digits), Star(<<Lit(","), DigitsGroup(3, 3, 0)>>),
      Maybe(<<Lit("."), DigitsGroup(2, 2, 0)>>), Close(1)>>

\* The same in the f-strings of extract_account_amount, where {3} and {2}
\* are replaced by 3 and 2: (\d+(?:,\d3)*(?:\.\d2)?)
NumberOfAccount ==
    <<Open(1), OneOrMore(Digits), Star(<<Lit(","), OneOf(Digits), Lit("3")>>),
      Maybe(<<Lit("."), OneOf(Digits), Lit("2")>>), Close(1)>>

RECURSIVE Without(_, _)
\* str.replace(c, '')
Without(s, c) ==
    IF s = <<>> THEN s
    ELSE IF Head(s) = c THEN Without(Tail(s), c)
    ELSE <<Head(s)>> \o Without(Tail(s), c)

RECURSIVE StripZeros(_)
StripZeros(digits) ==
    IF digits # <<>> /\ Head(digits) = "0" THEN StripZeros(Tail(digits))
    ELSE digits

\* int(s) where only the comparison with small numbers matters: a number
\* of more than nine digits counts as 10^9.
IntValue(digits) ==
    IF Len(StripZeros(digits)) > 9 THEN 1000000000
    ELSE ToInt(StripZeros(digits))

\* An amount of money is counted in hundredths.
Amount(units) == 100 * units

\* float(s) of digits with at most one point followed by two digits, in
\* hundredths; a number of a thousand million and more counts as that.
Float(s) ==
    LET point == {k \in 1..Len(s) : s[k] = "."}
        whole == IF point = {} THEN s
                 ELSE SubSeq(s, 1, (CHOOSE k \in point : TRUE) - 1)
        cents == IF point = {} THEN <<>>
                 ELSE SubSeq(s, (CHOOSE k \in point : TRUE) + 1, Len(s))
    IN  IF Len(StripZeros(whole)) > 7 THEN Amount(10000000)
        ELSE Amount(ToInt(StripZeros(whole))) + ToInt(cents)

\* --------------------------------------------------- extract_credit_amount
credit_amount_patterns ==
    << <<Alt(<<Lits(<<"l", "o", "a", "n">>), Lits(<<"c", "r", "e", "d", "i", "t">>)>>), ZeroOrMore(Spaces),
         Maybe(<<Alt(<<Lits(<<"a", "m", "o", "u", "n", "t">>), Lits(<<"s", "u", "m">>)>>)>>),
         ZeroOrMore(ColonOrSpace), Maybe(<<Currency>>), ZeroOrMore(Spaces)>>
         \o Number,
       <<Alt(<<Lits(<<"a", "m", "o", "u", "n", "t">>), Lits(<<"s", "u", "m">>)>>),
         ZeroOrMore(ColonOrSpace), Maybe(<<Currency>>), ZeroOrMore(Spaces)>>
         \o Number,
       <<Currency, ZeroOrMore(Spaces)>> \o Number,
       Lits(<<"p", "r", "i", "n", "c", "i", "p", "a", "l">>) \o
       <<ZeroOrMore(ColonOrSpace), Maybe(<<Currency>>), ZeroOrMore(Spaces)>>
         \o Number >>

RECURSIVE CreditAmountFrom(_, _)
\* The loop of extract_credit_amount from pattern k on: the amount of a
\* match is returned when it is positive.
CreditAmountFrom(text, k) ==
    IF k > Len(credit_amount_patterns) THEN <<>>
    ELSE LET match  == Search(text, credit_amount_patterns[k])
             amount == Float(Without(match.groups[1], ","))
         IN  IF match.end # 0 /\ amount > 0 THEN <<amount>>
             ELSE CreditAmountFrom(text, k + 1)

extract_credit_amount(text) == CreditAmountFrom(Lower(text), 1)

\* -------------------------------------------------- extract_account_amount
account_patterns(account_type) ==
    << Lits(account_type) \o
       <<ZeroOrMore(ColonOrSpace), Maybe(<<Alt(<<Lits(<<"b", "a", "l", "a", "n", "c", "e">>), Lits(<<"a", "c", "c", "o", "u", "n", "t">>)>>)>>),
         ZeroOrMore(ColonOrSpace), Maybe(<<Currency>>), ZeroOrMore(Spaces)>>
         \o NumberOfAccount,
       Lits(account_type) \o
       <<ZeroOrMore(ColonOrSpace), Alt(<<Lits(<<"a", "/", "c">>), Lits(<<"a", "c", "c">>)>>),
         ZeroOrMore(ColonOrSpace), Maybe(<<Currency>>), ZeroOrMore(Spaces)>>
         \o NumberOfAccount >>

\* extract_account_amount: the number of the first pattern that matches.
extract_account_amount(text, account_type) ==
    LET text_lower == Lower(text)
        first  == Search(text_lower, account_patterns(account_type)[1])
        second == Search(text_lower, account_patterns(account_type)[2])
    IN  IF first.end # 0 THEN <<Float(Without(first.groups[1], ","))>>
        ELSE IF second.end # 0 THEN <<Float(Without(second.groups[1], ","))>>
        ELSE <<>>

\* ------------------------------------------------- classify_savings_level
Zero == <<Boundary, Lit("0"), Boundary>>

savings_pattern(words) ==
    Lits(<<"s", "a", "v", "i", "n", "g">>) \o <<Opt("s"), ZeroOrMore(ColonOrSpace), Alt(words)>>

savings_none == <<Lits(<<"n", "o", "n", "e">>), Lits(<<"n", "o">>), Lits(<<"z", "e", "r", "o">>), Lits(<<"n", "i", "l">>), Zero>>
savings_little == <<Lits(<<"l", "i", "t", "t", "l", "e">>), Lits(<<"s", "m", "a", "l", "l">>), Lits(<<"m", "i", "n", "i", "m", "a", "l">>), Lits(<<"l", "o", "w">>)>>
savings_quite_rich ==
    <<Lits(<<"q", "u", "i", "t", "e">>) \o <<OneOrMore(Spaces)>> \o Lits(<<"r", "i", "c", "h">>),
      Lits(<<"v", "e", "r", "y">>) \o <<OneOrMore(Spaces)>> \o Lits(<<"g", "o", "o", "d">>),
      Lits(<<"s", "u", "b", "s", "t", "a", "n", "t", "i", "a", "l">>), Lits(<<"s", "i", "g", "n", "i", "f", "i", "c", "a", "n", "t">>)>>
savings_rich == <<Lits(<<"r", "i", "c", "h">>), Lits(<<"h", "i", "g", "h">>), Lits(<<"e", "x", "c", "e", "l", "l", "e", "n", "t">>), Lits(<<"s", "t", "r", "o", "n", "g">>)>>
savings_moderate == <<Lits(<<"m", "o", "d", "e", "r", "a", "t", "e">>), Lits(<<"a", "v", "e", "r", "a", "g", "e">>), Lits(<<"m", "e", "d", "i", "u", "m">>), Lits(<<"f", "a", "i", "r">>)>>

\* The level of a savings balance.
SavingsBucket(amount) ==
    IF amount = 0 THEN "none"
    ELSE IF amount < Amount(1000) THEN "little"
    ELSE IF amount < Amount(10000) THEN "moderate"
    ELSE IF amount < Amount(50000) THEN "quite rich"
    ELSE "rich"

\* A variant that looks at the words before the balance; C23 rejects it.
classify_savings_level_words_first(text) ==
    LET text_lower == Lower(text)
        amount == extract_account_amount(text_lower, <<"s", "a", "v", "i", "n", "g">>)
    IN  IF Found(text_lower, savings_pattern(savings_none)) THEN "none"
        ELSE IF Found(text_lower, savings_pattern(savings_little)) THEN "little"
        ELSE IF Found(text_lower, savings_pattern(savings_quite_rich))
        THEN "quite rich"
        ELSE IF Found(text_lower, savings_pattern(savings_rich)) THEN "rich"
        ELSE IF Found(text_lower, savings_pattern(savings_moderate))
        THEN "moderate"
        ELSE IF amount # <<>> THEN SavingsBucket(amount[1])
        ELSE "little"

classify_savings_level(text) ==
    LET text_lower == Lower(text)
        amount == extract_account_amount(text_lower, <<"s", "a", "v", "i", "n", "g">>)
    IN  IF amount # <<>> THEN SavingsBucket(amount[1])
        ELSE IF Found(text_lower, savings_pattern(savings_none)) THEN "none"
        ELSE IF Found(text_lower, savings_pattern(savings_little)) THEN "little"
        ELSE IF Found(text_lower, savings_pattern(savings_quite_rich))
        THEN "quite rich"
        ELSE IF Found(text_lower, savings_pattern(savings_rich)) THEN "rich"
        ELSE IF Found(text_lower, savings_pattern(savings_moderate))
        THEN "moderate"
        ELSE "little"

\* ------------------------------------------------ classify_checking_level
checking_pattern(words) ==
    Lits(<<"c", "h", "e", "c", "k", "i", "n", "g">>) \o <<ZeroOrMore(ColonOrSpace), Alt(words)>>

checking_rich == <<Lits(<<"r", "i", "c", "h">>), Lits(<<"h", "i", "g", "h">>), Lits(<<"s", "u", "b", "s", "t", "a", "n", "t", "i", "a", "l">>), Lits(<<"s", "i", "g", "n", "i", "f", "i", "c", "a", "n", "t">>)>>

\* The level of a checking balance.
CheckingBucket(amount) ==
    IF amount = 0 THEN "none"
    ELSE IF amount < Amount(500) THEN "little"
    ELSE IF amount < Amount(5000) THEN "moderate"
    ELSE "rich"

classify_checking_level(text) ==
    LET text_lower == Lower(text)
        amount == extract_account_amount(text_lower, <<"c", "h", "e", "c", "k", "i", "n", "g">>)
    IN  IF amount # <<>> THEN CheckingBucket(amount[1])
        ELSE IF Found(text_lower, checking_pattern(savings_none)) THEN "none"
        ELSE IF Found(text_lower, checking_pattern(savings_little)) THEN "little"
        ELSE IF Found(text_lower, checking_pattern(checking_rich)) THEN "rich"
        ELSE IF Found(text_lower, checking_pattern(savings_moderate))
        THEN "moderate"
        ELSE "little"

\* ------------------------------------------------- extract_duration_months
month_pattern(word) ==
    Lits(word) \o <<ZeroOrMore(ColonOrSpace), DigitsGroup(1, -1, 1),
                    ZeroOrMore(Spaces)>> \o Lits(<<"m", "o", "n", "t", "h">>) \o <<Opt("s")>>

year_pattern(word) ==
    Lits(word) \o <<ZeroOrMore(ColonOrSpace), DigitsGroup(1, -1, 1),
                    ZeroOrMore(Spaces)>> \o Lits(<<"y", "e", "a", "r">>) \o <<Opt("s")>>

duration_words == <<<<"d", "u", "r", "a", "t", "i", "o", "n">>, <<"t", "e", "n", "u", "r", "e">>, <<"p", "e", "r", "i", "o", "d">>, <<"t", "e", "r", "m">>>>

month_patterns ==
    [k \in 1..4 |-> month_pattern(duration_words[k])] \o
    << <<DigitsGroup(1, -1, 1), ZeroOrMore(Spaces)>> \o Lits(<<"m", "o", "n", "t", "h">>) \o
       <<Opt("s"), ZeroOrMore(Spaces),
         Alt(<<Lits(<<"l", "o", "a", "n">>), Lits(<<"t", "e", "n", "u", "r", "e">>), Lits(<<"p", "e", "r", "i", "o", "d">>), Lits(<<"t", "e", "r", "m">>)>>)>> >>

year_patterns == [k \in 1..4 |-> year_pattern(duration_words[k])]

\* sys.int_max_str_digits: int() of a longer string of digits raises
\* ValueError where the interpreter has the limit.
int_max_str_digits == 4300

Returned(value) == [raised |-> FALSE, value |-> value]
Raised == [raised |-> TRUE, value |-> <<>>]

RECURSIVE DurationFrom(_, _, _)
\* The two loops of extract_duration_months from pattern k on, the
\* patterns of months before those of years.  limited: the interpreter
\* limits int().
DurationFrom(text, k, limited) ==
    LET patterns == month_patterns \o year_patterns
        years    == k > Len(month_patterns)
        match    == Search(text, patterns[k])
        n        == IntValue(match.groups[1])
    IN  IF k > Len(patterns) THEN Returned(<<>>)
        ELSE IF match.end = 0 THEN DurationFrom(text, k + 1, limited)
        ELSE IF limited /\ Len(match.groups[1]) > int_max_str_digits
        THEN Raised
        ELSE IF ~years /\ 1 <= n /\ n <= 120 THEN Returned(<<n>>)
        ELSE IF years /\ 1 <= n /\ n <= 10 THEN Returned(<<n * 12>>)
        ELSE DurationFrom(text, k + 1, limited)

extract_duration_months(text, limited) ==
    DurationFrom(Lower(text), 1, limited)

\* ----------------------------------------------------- parse_credit_fields
\* A variant that takes an applicant of unknown gender for male; C22
\* rejects it.
parse_credit_fields_text_male(text, limited) ==
    LET duration == extract_duration_months(text, limited)
    IN  IF duration.raised THEN Raised
        ELSE Returned(
            [age |-> extract_age(text),
             gender |-> IF extract_gender(text) = NULL THEN "male"
                        ELSE extract_gender(text),
             job |-> classify_job_category(text),
             housing |-> classify_housing_type(text),
             saving_accounts |-> classify_savings_level(text),
             checking_account |-> classify_checking_level(text),
             credit_amount |-> extract_credit_amount(text),
             duration |-> duration.value,
             purpose |-> classify_loan_purpose(text)])

\* parse_credit_fields on the characters of a text: the dictionary of the
\* nine fields, or the exception of the one function that can raise.
parse_credit_fields_text(text, limited) ==
    LET duration == extract_duration_months(text, limited)
    IN  IF duration.raised THEN Raised
        ELSE Returned(
            [age |-> extract_age(text),
             gender |-> extract_gender(text),
             job |-> classify_job_category(text),
             housing |-> classify_housing_type(text),
             saving_accounts |-> classify_savings_level(text),
             checking_account |-> classify_checking_level(text),
             credit_amount |-> extract_credit_amount(text),
             duration |-> duration.value,
             purpose |-> classify_loan_purpose(text)])

\* ---------------------------------------------------------- scoring calls
\* What the remote service does with one request: it answers (the risk
\* service with or without a heatmap), or requests.post fails.
MLFailures     == {"timeout", "connection", "http"}
RiskResponses  == {"ok", "ok_heatmap_base64", "ok_bad_base64", "ok_heatmap_url"}
                    \cup MLFailures
OtherResponses == {"ok"} \cup MLFailures

\* call_ml: the message of the exception it raises, None when it returns.
call_ml_error(response) ==
    CASE response = "timeout"    -> "ML API timeout after 60 seconds"
      [] response = "connection" -> "Cannot connect to ML API"
      [] response = "http"       -> "ML API HTTP error"
      [] OTHER                   -> NULL

\* A variant whose fallback gives a score of zero; C29 rejects it.
call_risk_prediction_zero_score(parsed_fields, response) ==
    IF call_ml_error(response) # NULL
    THEN [prediction |-> NULL, risk_score |-> "0.0",
          error |-> call_ml_error(response), status |-> "unavailable",
          heatmap_base64 |-> NULL, heatmap_url |-> NULL]
    ELSE [prediction |-> "1", risk_score |-> "0.35",
          error |-> NULL, status |-> NULL,
          heatmap_base64 |-> CASE response = "ok_heatmap_base64" -> "png"
                               [] response = "ok_bad_base64"     -> "garbage"
                               [] OTHER                          -> NULL,
          heatmap_url |-> IF response = "ok_heatmap_url" THEN "url" ELSE NULL]

\* call_risk_prediction: the answer of /predict, or the fallback of the
\* except clause with the message of the exception.
call_risk_prediction(parsed_fields, response) ==
    IF call_ml_error(response) # NULL
    THEN [prediction |-> NULL, risk_score |-> NULL,
          error |-> call_ml_error(response), status |-> "unavailable",
          heatmap_base64 |-> NULL, heatmap_url |-> NULL]
    ELSE [prediction |-> "1", risk_score |-> "0.35",
          error |-> NULL, status |-> NULL,
          heatmap_base64 |-> CASE response = "ok_heatmap_base64" -> "png"
                               [] response = "ok_bad_base64"     -> "garbage"
                               [] OTHER                          -> NULL,
          heatmap_url |-> IF response = "ok_heatmap_url" THEN "url" ELSE NULL]

\* A variant whose fallback reports the fields compliant; C1 rejects it.
call_compliance_check_compliant(parsed_fields, response) ==
    [compliance_score |-> IF call_ml_error(response) # NULL THEN "1.0" ELSE "0.9",
     violations |-> <<>>,
     status |-> "compliant"]

\* call_compliance_check: the answer of /compliance/check, or the fallback
\* of the except clause.
call_compliance_check(parsed_fields, response) ==
    IF call_ml_error(response) # NULL
    THEN [compliance_score |-> "1.0", violations |-> <<>>,
          status |-> "not_available"]
    ELSE [compliance_score |-> "0.9", violations |-> <<>>,
          status |-> "compliant"]

call_cross_verification(parsed_fields, document_ids, response) ==
    IF call_ml_error(response) # NULL
    THEN [overall_score |-> "1.0", discrepancies |-> <<>>,
          status |-> "not_available"]
    ELSE [overall_score |-> "0.9", discrepancies |-> <<>>,
          status |-> NULL]

\* formatted_risk of run_full_analysis_background.
FormattedRisk(risk_result, parsed_fields, validation_errors) ==
    [prediction |-> risk_result.prediction,
     risk_score |-> risk_result.risk_score,
     parsed_fields |-> parsed_fields,
     validation_errors |-> validation_errors,
     raw_ml_response |-> risk_result]

\* The row the pipeline inserts at step 7.
FullRecord(id, d, risk, compliance, crossverify) ==
    [id |-> id, document_id |-> d, risk |-> risk,
     compliance |-> compliance, crossverify |-> crossverify]

\* The row the except block inserts: risk is the error payload alone.
ErrorRecord(id, d, message) ==
    [id |-> id, document_id |-> d,
     risk |-> [error |-> message, status |-> "failed"],
     compliance |-> <<>>, crossverify |-> <<>>]


\* ------------------------------------------------------- the invocations
Local(p) == inv[p]
SetLocal(p, r) == inv' = [inv EXCEPT ![p] = r]

\* A failure of the invocation is noted for the properties.
Failed(l, failure) == [l EXCEPT !.fails = @ \cup {failure}]
NoteIf(l, cond, failure) == IF cond THEN Failed(l, failure) ELSE l

\* The except block of run_full_analysis_background is entered with e.
Except(l, message) == [l EXCEPT !.pc = "set_failed", !.exc = message]

\* POST /upload: upload_document_to_supabase inserts the documents row with
\* status processing, then the analysis is scheduled as a background task.
upload_document(p, d, pages) ==
    /\ Len(history) < MaxOps
    /\ FreeSlot(p)
    /\ status[d] = "absent"
    /\ status' = [status EXCEPT ![d] = "processing"]
    /\ pdf' = [pdf EXCEPT ![d] = pages]
    /\ SetLocal(p, Fresh("upload", d, "download"))
    /\ history' = Append(history, <<"upload", d>>)
    /\ UNCHANGED <<extracted_texts, analyses, heatmaps, nextId, ml, budget>>

\* POST /analyze/{document_id}: the document is looked up and the analysis
\* is scheduled as it is for an upload; nothing is written before it runs.
trigger_analysis(p, d) ==
    /\ Len(history) < MaxOps
    /\ FreeSlot(p)
    /\ status[d] # "absent"
    /\ SetLocal(p, Fresh("analyze", d, "download"))
    /\ history' = Append(history, <<"analyze", d>>)
    /\ UNCHANGED <<status, pdf, extracted_texts, analyses, heatmaps, nextId,
                   ml, budget>>

\* rerun_analysis, up to the select of the storage path: Document not found
\* is raised to the caller when the select returns no row.
rerun_analysis(p, d) ==
    /\ Len(history) < MaxOps
    /\ FreeSlot(p)
    /\ IF status[d] = "absent"
       THEN SetLocal(p, [Fresh("rerun", d, "raised")
                            EXCEPT !.exc = "Document not found"])
       ELSE SetLocal(p, Fresh("rerun", d, "rerun_status"))
    /\ history' = Append(history, <<"rerun", d>>)
    /\ UNCHANGED <<status, pdf, extracted_texts, analyses, heatmaps, nextId,
                   ml, budget>>

\* A store call of rerun_analysis that raises ends the rerun: nothing
\* catches the exception.
RerunRaises(l, failure) ==
    [Failed(l, failure) EXCEPT !.pc = "raised", !.exc = "store error"]

\* A variant that leaves the status as it is; C6 rejects it.
rerun_set_processing_skipped(p) ==
    /\ Local(p).pc = "rerun_status"
    /\ \E outcome \in Outcomes({"ok", "raise"}) :
        /\ Spend(outcome)
        /\ SetLocal(p, IF outcome = "ok"
                       THEN [Local(p) EXCEPT !.pc = "rerun_delete_analyses"]
                       ELSE RerunRaises(Local(p), "rerun_status"))
    /\ UNCHANGED <<status, pdf, extracted_texts, analyses, heatmaps, nextId,
                   history, ml>>

\* rerun_analysis: documents.update({"status": "processing"}).
rerun_set_processing(p) ==
    /\ Local(p).pc = "rerun_status"
    /\ \E outcome \in Outcomes({"ok", "raise"}) :
        /\ Spend(outcome)
        /\ IF outcome = "ok"
           THEN /\ status' = UpdateStatus(Local(p).document_id, "processing")
                /\ SetLocal(p, [Local(p) EXCEPT !.pc = "rerun_delete_analyses"])
           ELSE /\ SetLocal(p, RerunRaises(Local(p), "rerun_status"))
                /\ UNCHANGED status
    /\ UNCHANGED <<pdf, extracted_texts, analyses, heatmaps, nextId, history, ml>>

\* A variant whose delete spares the records that invocations still under
\* way have inserted; C11 rejects it.
rerun_delete_analyses_sparing(p) ==
    /\ Local(p).pc = "rerun_delete_analyses"
    /\ \E outcome \in Outcomes({"ok", "raise"}) :
        LET mine == {i \in 1..Len(analyses) :
                       \A q \in Procs :
                           Active(q) => analyses[i].id # inv[q].analysis_id}
            kept == [i \in 1..Len(analyses) |->
                       IF i \in mine THEN analyses[i]
                       ELSE [analyses[i] EXCEPT !.document_id = 0]]
            back == [i \in 1..Len(DeleteRows(kept, Local(p).document_id)) |->
                       [DeleteRows(kept, Local(p).document_id)[i]
                            EXCEPT !.document_id = Local(p).document_id]]
        IN  /\ Spend(outcome)
            /\ IF outcome = "ok"
               THEN /\ analyses' = back
                    /\ SetLocal(p, [Local(p) EXCEPT !.pc = "rerun_delete_texts"])
               ELSE /\ SetLocal(p, RerunRaises(Local(p), "rerun_delete_analyses"))
                    /\ UNCHANGED analyses
    /\ UNCHANGED <<status, pdf, extracted_texts, heatmaps, nextId, history, ml>>

\* rerun_analysis: analyses.delete().eq("document_id", document_id).
rerun_delete_analyses(p) ==
    /\ Local(p).pc = "rerun_delete_analyses"
    /\ \E outcome \in Outcomes({"ok", "raise"}) :
        /\ Spend(outcome)
        /\ IF outcome = "ok"
           THEN /\ analyses' = DeleteRows(analyses, Local(p).document_id)
                /\ SetLocal(p, [Local(p) EXCEPT !.pc = "rerun_delete_texts"])
           ELSE /\ SetLocal(p, RerunRaises(Local(p), "rerun_delete_analyses"))
                /\ UNCHANGED analyses
    /\ UNCHANGED <<status, pdf, extracted_texts, heatmaps, nextId, history, ml>>

\* A variant that deletes no extracted_texts row; C10 rejects it.
rerun_delete_texts_skipped(p) ==
    /\ Local(p).pc = "rerun_delete_texts"
    /\ \E outcome \in Outcomes({"ok", "raise"}) :
        /\ Spend(outcome)
        /\ SetLocal(p, IF outcome = "ok"
                       THEN [Local(p) EXCEPT !.pc = "download"]
                       ELSE RerunRaises(Local(p), "rerun_delete_texts"))
    /\ UNCHANGED <<status, pdf, extracted_texts, analyses, heatmaps, nextId,
                   history, ml>>

\* rerun_analysis: extracted_texts.delete().eq("document_id", document_id),
\* then the call of run_full_analysis_background.
rerun_delete_texts(p) ==
    /\ Local(p).pc = "rerun_delete_texts"
    /\ \E outcome \in Outcomes({"ok", "raise"}) :
        /\ Spend(outcome)
        /\ IF outcome = "ok"
           THEN /\ extracted_texts' =
                       DeleteRows(extracted_texts, Local(p).document_id)
                /\ SetLocal(p, [Local(p) EXCEPT !.pc = "download"])
           ELSE /\ SetLocal(p, RerunRaises(Local(p), "rerun_delete_texts"))
                /\ UNCHANGED extracted_texts
    /\ UNCHANGED <<status, pdf, analyses, heatmaps, nextId, history, ml>>

\* extract_and_store_texts: the download from storage and pdfplumber.open.
\* Either raises, and run_full_analysis_background catches it.
download(p) ==
    /\ Local(p).pc = "download"
    /\ \E outcome \in Outcomes({"ok", "download", "pdf"}) :
        LET l == [Local(p) EXCEPT !.ran = TRUE] IN
        /\ Spend(outcome)
        /\ CASE outcome = "ok" ->
                  SetLocal(p, [l EXCEPT !.pc = "page", !.page = 1])
             [] outcome = "download" ->
                  SetLocal(p, Except(Failed(l, "download"),
                                     "Failed to download document"))
             [] outcome = "pdf" ->
                  SetLocal(p, Except(Failed(l, "pdf"), "PDF extraction failed"))
    /\ UNCHANGED <<status, pdf, extracted_texts, analyses, heatmaps, nextId,
                   history, ml>>

\* extract_and_store_texts: one round of the loop over pdf.pages.  The page's
\* text is appended and its row inserted; an exception of extract_text, or
\* of the insert, is caught and (page_num, "") appended.
extract_page(p) ==
    /\ Local(p).pc = "page"
    /\ Local(p).page <= Len(pdf[Local(p).document_id])
    /\ \E outcome \in Outcomes({"ok", "page_extract", "page_insert"}) :
        LET l    == Local(p)
            n    == l.page
            text == Strip(pdf[l.document_id][n])
            row  == [document_id |-> l.document_id, page_number |-> n,
                     text |-> text]
        IN  /\ Spend(outcome)
            /\ CASE outcome = "ok" ->
                      /\ extracted_texts' = Append(extracted_texts, row)
                      /\ SetLocal(p, [l EXCEPT !.page = n + 1,
                                         !.texts = Append(@, <<n, text>>)])
                 [] outcome = "page_extract" ->
                      /\ UNCHANGED extracted_texts
                      /\ SetLocal(p, [Failed(l, "page_extract") EXCEPT
                                         !.page = n + 1,
                                         !.texts = Append(@, <<n, "">>)])
                 [] outcome = "page_insert" ->
                      /\ UNCHANGED extracted_texts
                      /\ SetLocal(p, [Failed(l, "page_insert") EXCEPT
                                         !.page = n + 1,
                                         !.texts = @ \o <<<<n, text>>, <<n, "">>>>])
    /\ UNCHANGED <<status, pdf, analyses, heatmaps, nextId, history, ml>>

\* A variant in which an invalid field set ends the run; C14 rejects it.
AfterExtraction_strict(l) ==
    LET full_text == FullText(l.texts)
        fields    == parse_credit_fields(full_text)
    IN  IF l.texts # <<>> /\ ~IsBlank(full_text)
           /\ ~validate_parsed_fields(fields)[1]
        THEN Except([Failed(l, "validation") EXCEPT !.parsed_fields = fields],
                    "Validation failed")
        ELSE [l EXCEPT !.pc = "risk", !.parsed_fields = fields]

\* run_full_analysis_background, steps 1 to 3 after the extraction: no
\* pages and a blank text raise; else the fields are parsed and validated,
\* and the messages of an invalid field set are put into the field set.
AfterExtraction(l) ==
    LET full_text == FullText(l.texts)
        fields    == parse_credit_fields(full_text)
        is_valid  == validate_parsed_fields(fields)[1]
        errors    == validate_parsed_fields(fields)[2]
    IN  IF l.texts = <<>>
        THEN Except(Failed(l, "no_text"), "No text extracted from document")
        ELSE IF IsBlank(full_text)
        THEN Except(Failed(l, "blank_text"),
                    "Document appears to be empty or contains only images")
        ELSE [NoteIf(l, ~is_valid, "validation") EXCEPT
                 !.pc = "risk",
                 !.parsed_fields =
                     IF ~is_valid
                     THEN [fields EXCEPT !.validation_errors_key = errors]
                     ELSE fields,
                 !.validation_errors = IF ~is_valid THEN errors ELSE <<>>]

parse_and_validate(p) ==
    /\ Local(p).pc = "page"
    /\ Local(p).page > Len(pdf[Local(p).document_id])
    /\ SetLocal(p, AfterExtraction(Local(p)))
    /\ UNCHANGED <<status, pdf, extracted_texts, analyses, heatmaps, nextId,
                   history, ml, budget>>

\* Step 4: call_risk_prediction.
risk_call(p) ==
    /\ Local(p).pc = "risk"
    /\ SetLocal(p, [NoteIf(Local(p), ml.predict \in MLFailures, "risk") EXCEPT
            !.pc = "compliance",
            !.risk_result =
                call_risk_prediction(Local(p).parsed_fields, ml.predict),
            !.calls = Append(@, "predict")])
    /\ UNCHANGED <<status, pdf, extracted_texts, analyses, heatmaps, nextId,
                   history, ml, budget>>

\* Step 5: call_compliance_check.
compliance_call(p) ==
    /\ Local(p).pc = "compliance"
    /\ SetLocal(p, [NoteIf(Local(p), ml.compliance \in MLFailures, "compliance")
          EXCEPT
            !.pc = "crossverify",
            !.compliance_result =
                call_compliance_check(Local(p).parsed_fields, ml.compliance),
            !.calls = Append(@, "compliance")])
    /\ UNCHANGED <<status, pdf, extracted_texts, analyses, heatmaps, nextId,
                   history, ml, budget>>

\* Step 6: call_cross_verification.
crossverify_call(p) ==
    /\ Local(p).pc = "crossverify"
    /\ SetLocal(p, [NoteIf(Local(p), ml.crossverify \in MLFailures, "crossverify")
          EXCEPT
            !.pc = "store",
            !.crossverify_result =
                call_cross_verification(Local(p).parsed_fields,
                                        <<Local(p).document_id>>,
                                        ml.crossverify),
            !.calls = Append(@, "crossverify")])
    /\ UNCHANGED <<status, pdf, extracted_texts, analyses, heatmaps, nextId,
                   history, ml, budget>>

\* A variant that goes from the insert to the status write and leaves the
\* heatmap out; C24 rejects it.
AfterInsert_skips_heatmap(l, outcome, id) ==
    CASE outcome = "ok" ->
           [l EXCEPT !.pc = "set_done", !.analysis_id = id]
      [] outcome = "no_data" ->
           Except(l, "Failed to store analysis results in database")
      [] outcome = "raise" ->
           Except(l, "store error")

\* A variant that takes a result without data for a stored row; C9
\* rejects it.
AfterInsert_ignores_no_data(l, outcome, id) ==
    IF outcome \in {"ok", "no_data"}
    THEN [l EXCEPT !.pc = "heatmap", !.analysis_id = id]
    ELSE Except(l, "store error")

\* Step 7, after the insert into analyses: a result without data raises,
\* as does the insert itself; else the id of the new row is kept.
AfterInsert(l, outcome, id) ==
    CASE outcome = "ok" ->
           [l EXCEPT !.pc = "heatmap", !.analysis_id = id]
      [] outcome = "no_data" ->
           Except(l, "Failed to store analysis results in database")
      [] outcome = "raise" ->
           Except(l, "store error")

\* Step 7: the insert of the analysis row.
store_analysis(p) ==
    /\ Local(p).pc = "store"
    /\ \E outcome \in Outcomes({"ok", "no_data", "raise"}) :
        LET l == Local(p)
            row == FullRecord(nextId, l.document_id,
                              FormattedRisk(l.risk_result, l.parsed_fields,
                                            l.validation_errors),
                              l.compliance_result, l.crossverify_result)
        IN  /\ Spend(outcome)
            /\ IF outcome = "ok"
               THEN /\ analyses' = Append(analyses, row)
                    /\ nextId' = nextId + 1
                    /\ SetLocal(p, AfterInsert(
                           [l EXCEPT !.ins = Append(@, "full")], outcome, nextId))
               ELSE /\ UNCHANGED <<analyses, nextId>>
                    /\ SetLocal(p, AfterInsert(Failed(l, "analysis_insert"),
                                               outcome, nextId))
    /\ UNCHANGED <<status, pdf, extracted_texts, heatmaps, history, ml>>

\* "heatmap_base64" in risk_result and risk_result["heatmap_base64"].
HasHeatmap(risk_result) ==
    risk_result.heatmap_base64 \notin {NULL, ""}

\* A variant in which a heatmap failure reaches the outer except clause;
\* C8 rejects it.
HeatmapFailed_raises(l) == Except(l, "heatmap error")

\* A variant in which a heatmap failure ends the run before the status
\* write; C16 rejects it.
HeatmapFailed_skips_done(l) == [l EXCEPT !.pc = "returned"]

\* Step 8, the except clause of the heatmap's try block: the failure is
\* logged and the pipeline goes on.
HeatmapFailed(l) == [l EXCEPT !.pc = "set_done"]

\* Step 8: the heatmap is decoded, uploaded and its row inserted.
process_heatmap(p) ==
    /\ Local(p).pc = "heatmap"
    /\ LET l    == Local(p)
           path == <<"heatmaps", l.document_id, "risk.png">>
       IN  IF ~HasHeatmap(l.risk_result)
           THEN /\ SetLocal(p, [l EXCEPT !.pc = "set_done"])
                /\ UNCHANGED <<heatmaps, budget>>
           ELSE IF l.risk_result.heatmap_base64 = "garbage"
           THEN /\ SetLocal(p, HeatmapFailed(Failed(l, "heatmap")))
                /\ UNCHANGED <<heatmaps, budget>>
           ELSE \E outcome \in Outcomes({"ok", "upload", "insert"}) :
                /\ Spend(outcome)
                /\ IF outcome = "ok"
                   THEN /\ heatmaps' = Append(heatmaps,
                               [analysis_id |-> l.analysis_id,
                                heatmap_path |-> path])
                        /\ SetLocal(p, [l EXCEPT !.pc = "set_done",
                                           !.heatmap_path = path])
                   ELSE /\ SetLocal(p, HeatmapFailed(Failed(l, "heatmap")))
                        /\ UNCHANGED heatmaps
    /\ UNCHANGED <<status, pdf, extracted_texts, analyses, nextId, history, ml>>

\* Step 9: documents.update({"status": "done"}), inside the try block.
set_done(p) ==
    /\ Local(p).pc = "set_done"
    /\ \E outcome \in Outcomes({"ok", "raise"}) :
        /\ Spend(outcome)
        /\ IF outcome = "ok"
           THEN /\ status' = UpdateStatus(Local(p).document_id, "done")
                /\ SetLocal(p, [Local(p) EXCEPT !.pc = "returned"])
           ELSE /\ UNCHANGED status
                /\ SetLocal(p, Except(Failed(Local(p), "done_update"),
                                      "store error"))
    /\ UNCHANGED <<pdf, extracted_texts, analyses, heatmaps, nextId, history, ml>>

\* The except block: documents.update({"status": "failed"}); an exception
\* of the update is passed over.
set_failed(p) ==
    /\ Local(p).pc = "set_failed"
    /\ \E outcome \in Outcomes({"ok", "raise"}) :
        /\ Spend(outcome)
        /\ IF outcome = "ok"
           THEN /\ status' = UpdateStatus(Local(p).document_id, "failed")
                /\ SetLocal(p, [Local(p) EXCEPT !.pc = "store_error"])
           ELSE /\ UNCHANGED status
                /\ SetLocal(p, [Failed(Local(p), "failed_update") EXCEPT
                                   !.pc = "store_error"])
    /\ UNCHANGED <<pdf, extracted_texts, analyses, heatmaps, nextId, history, ml>>

\* The except block: the error row is inserted, an exception of the insert
\* is passed over, and the pipeline's exception is raised.
store_error(p) ==
    /\ Local(p).pc = "store_error"
    /\ \E outcome \in Outcomes({"ok", "raise"}) :
        /\ Spend(outcome)
        /\ IF outcome = "ok"
           THEN /\ analyses' = Append(analyses,
                       ErrorRecord(nextId, Local(p).document_id, Local(p).exc))
                /\ nextId' = nextId + 1
                /\ SetLocal(p, [Local(p) EXCEPT !.pc = "raised",
                                   !.ins = Append(@, "error")])
           ELSE /\ UNCHANGED <<analyses, nextId>>
                /\ SetLocal(p, [Failed(Local(p), "error_insert") EXCEPT
                                   !.pc = "raised"])
    /\ UNCHANGED <<status, pdf, extracted_texts, heatmaps, history, ml>>

\* One step of rerun_analysis before it calls the pipeline.
Rerun(p) ==
    \/ rerun_set_processing(p)
    \/ rerun_delete_analyses(p)
    \/ rerun_delete_texts(p)

\* One step of run_full_analysis_background.
Run(p) ==
    \/ download(p)
    \/ extract_page(p)
    \/ parse_and_validate(p)
    \/ risk_call(p)
    \/ compliance_call(p)
    \/ crossverify_call(p)
    \/ store_analysis(p)
    \/ process_heatmap(p)
    \/ set_done(p)
    \/ set_failed(p)
    \/ store_error(p)

\* One step of an invocation that has started.
Step(p) == Rerun(p) \/ Run(p)

\* A request arrives.
Request(p) ==
    \/ \E d \in Docs, pages \in PDFs : upload_document(p, d, pages)
    \/ \E d \in Docs : trigger_analysis(p, d)
    \/ \E d \in Docs : rerun_analysis(p, d)

\* ---------------------------------------------------------------- dossier
\* The callers of POST /dossier/generate, and the user whose upload made
\* the documents row (its user_id).
Users == {"alice", "bob"}
Owner(d) == "alice"

\* What the pipeline reads and writes.
pipeline == <<status, pdf, extracted_texts, analyses, heatmaps, nextId, inv, ml>>

\* POST /dossier/generate: the token is verified and the request starts.
generate_dossier(caller, d) ==
    /\ Len(history) < MaxOps
    /\ gen.pc \in {"idle", "returned", "error_400", "error_404", "error_500"}
    /\ gen' = [pc |-> "gate", caller |-> caller, document_id |-> d,
               status_read |-> NULL]
    /\ history' = Append(history, <<"dossier", d>>)
    /\ UNCHANGED <<pipeline, budget, dossiers, dossier_files, call,
                   user_data>>

\* A variant of the gate that does not look at the status; C13 rejects it.
dossier_gate_any_status ==
    /\ gen.pc = "gate"
    /\ IF status[gen.document_id] = "absent" \/ Owner(gen.document_id) # gen.caller
       THEN gen' = [gen EXCEPT !.pc = "error_404"]
       ELSE gen' = [gen EXCEPT !.pc = "fetch",
                               !.status_read = status[gen.document_id]]
    /\ UNCHANGED <<pipeline, budget, history, dossiers, dossier_files, call,
                   user_data>>

\* generate_dossier: the documents row is selected by id and user_id; no
\* row is a 404, a status other than done a 400.
dossier_gate ==
    /\ gen.pc = "gate"
    /\ IF status[gen.document_id] = "absent" \/ Owner(gen.document_id) # gen.caller
       THEN gen' = [gen EXCEPT !.pc = "error_404"]
       ELSE gen' = [gen EXCEPT
                       !.pc = IF status[gen.document_id] # "done"
                              THEN "error_400" ELSE "fetch",
                       !.status_read = status[gen.document_id]]
    /\ UNCHANGED <<pipeline, budget, history, dossiers, dossier_files, call,
                   user_data>>

\* generate_and_upload_dossier: the document and its analyses are selected;
\* without an analysis it raises, which the endpoint turns into a 500.
dossier_fetch ==
    /\ gen.pc = "fetch"
    /\ gen' = [gen EXCEPT
                  !.pc = IF status[gen.document_id] = "absent"
                            \/ SelectRows(analyses, gen.document_id) = <<>>
                         THEN "error_500" ELSE "upload"]
    /\ UNCHANGED <<pipeline, budget, history, dossiers, dossier_files, call,
                   user_data>>

\* generate_and_upload_dossier, step 8: the ZIP file is uploaded.
dossier_upload ==
    /\ gen.pc = "upload"
    /\ \E outcome \in Outcomes({"ok", "raise"}) :
        /\ Spend(outcome)
        /\ IF outcome = "ok"
           THEN /\ dossier_files' = dossier_files \cup
                       {<<gen.caller, "dossiers", gen.document_id>>}
                /\ gen' = [gen EXCEPT !.pc = "insert"]
           ELSE /\ UNCHANGED dossier_files
                /\ gen' = [gen EXCEPT !.pc = "error_500"]
    /\ UNCHANGED <<pipeline, history, dossiers, call,
                   user_data>>

\* generate_and_upload_dossier, step 10: the dossiers row is inserted; a
\* result without data raises.
dossier_insert ==
    /\ gen.pc = "insert"
    /\ \E outcome \in Outcomes({"ok", "no_data", "raise"}) :
        /\ Spend(outcome)
        /\ IF outcome = "ok"
           THEN /\ dossiers' = Append(dossiers,
                       [document_id |-> gen.document_id,
                        user_id |-> gen.caller])
                /\ gen' = [gen EXCEPT !.pc = "returned"]
           ELSE /\ UNCHANGED dossiers
                /\ gen' = [gen EXCEPT !.pc = "error_500"]
    /\ UNCHANGED <<pipeline, history, dossier_files, call,
                   user_data>>

\* One step of the request POST /dossier/generate.
Dossier ==
    \/ \E caller \in Users, d \in Docs : generate_dossier(caller, d)
    \/ dossier_gate
    \/ dossier_fetch
    \/ dossier_upload
    \/ dossier_insert

\* ------------------------------------------------------- specifications
\* The conditions of the three scoring services.  A behaviour is examined
\* under one condition, which holds for all its calls.
Conditions(risk, others) ==
    [predict : risk, compliance : others, crossverify : others]

\* Requests that do not overlap, each service up (the risk service with a
\* heatmap in its answer) or unreachable, and at most MaxFaults failing
\* store or storage calls.
Init ==
    /\ EmptyStore
    /\ ml \in Conditions({"ok_heatmap_base64", "connection"},
                         {"ok", "connection"})
    /\ budget = MaxFaults

\* A request is served only when no invocation is under way.
Next ==
    /\ \E p \in Procs : (Quiet /\ Request(p)) \/ Step(p)
    /\ UNCHANGED aside

Spec == Init /\ [][Next]_vars

\* One upload and its analysis, under every condition of the services and
\* with any of its store and storage calls failing.
InitRun ==
    /\ EmptyStore
    /\ ml \in Conditions(RiskResponses, OtherResponses)
    /\ budget = MaxPages + 6

NextRun ==
    /\ \E p \in Procs :
        \/ \E d \in Docs, pages \in PDFs :
              history = <<>> /\ upload_document(p, d, pages)
        \/ Run(p)
    /\ UNCHANGED aside

SpecRun == InitRun /\ [][NextRun]_vars

\* Requests that overlap: the analysis of an upload, POST /analyze and
\* rerun_analysis are started while earlier invocations for the document
\* are under way (a background task runs in the thread pool, and no
\* request takes a lock).  The services answer; the PDF has one page,
\* a credit application or a scanned page without text.
InitRace ==
    /\ EmptyStore
    /\ ml \in Conditions({"ok"}, {"ok"})
    /\ budget = 0

RequestRace(p) ==
    \/ \E d \in Docs, raw \in {"app", "ws"} : upload_document(p, d, <<raw>>)
    \/ \E d \in Docs : trigger_analysis(p, d)
    \/ \E d \in Docs : rerun_analysis(p, d)

\* The steps that read and write the invocation's locals only: parsing and
\* the scoring calls.
Local_step(p) ==
    \/ parse_and_validate(p)
    \/ risk_call(p)
    \/ compliance_call(p)
    \/ crossverify_call(p)

\* Local_step(q) is enabled.
AtLocalStep(q) ==
    \/ inv[q].pc \in {"risk", "compliance", "crossverify"}
    \/ inv[q].pc = "page" /\ inv[q].page > Len(pdf[inv[q].document_id])

\* The steps that read or write the store or the storage.
Store_step(p) ==
    \/ Rerun(p)
    \/ download(p)
    \/ extract_page(p)
    \/ store_analysis(p)
    \/ process_heatmap(p)
    \/ set_done(p)
    \/ set_failed(p)
    \/ store_error(p)

\* A step on locals commutes with every step of another invocation, so it
\* is taken first: every order of the requests and of the store and
\* storage calls of the invocations is still examined.
NextRace ==
    /\ \E p \in Procs :
          \/ Local_step(p)
          \/ /\ \A q \in Procs : ~AtLocalStep(q)
             /\ RequestRace(p) \/ Store_step(p)
    /\ UNCHANGED aside

SpecRace == InitRace /\ [][NextRace]_vars

\* One upload and its analysis, and requests for the dossier made at any
\* moment of it by the owner of the document and by another user.
InitDossier ==
    /\ EmptyStore
    /\ ml \in Conditions({"ok"}, {"ok"})
    /\ budget = MaxFaults

NextDossier ==
    \/ /\ \E p \in Procs :
             \/ \E d \in Docs, pages \in PDFs :
                   status[d] = "absent" /\ upload_document(p, d, pages)
             \/ Run(p)
       /\ UNCHANGED aside
    \/ Dossier

SpecDossier == InitDossier /\ [][NextDossier]_vars

\* --------------------------------------------- the validator on its own
\* The field sets the validator is called with.  Every combination of a
\* missing, a wrong and a right value of each field, and a field set that
\* is right but for one field, which takes the values at and around the
\* limits of its domain.
ValidFields ==
    [age |-> <<45>>, gender |-> "male", job |-> "skilled", housing |-> "own",
     saving_accounts |-> "little", checking_account |-> "moderate",
     credit_amount |-> <<50000>>, duration |-> <<24>>, purpose |-> "car"]

Combinations ==
    [age : {<<>>, <<17>>, <<45>>},
     gender : {NULL, "other", "male"},
     job : {NULL, "manager", "skilled"},
     housing : {"owned", "own"},
     saving_accounts : {NULL, "little"},
     checking_account : {"high", "moderate"},
     credit_amount : {<<>>, <<0>>, <<50000>>},
     duration : {<<>>, <<0>>, <<24>>, <<121>>},
     purpose : {NULL, "car"}]

AtTheLimits ==
    {[ValidFields EXCEPT !.age = <<n>>] : n \in {0, 18, 100, 101}}
    \cup {[ValidFields EXCEPT !.gender = g] : g \in {"male", "female", ""}}
    \cup {[ValidFields EXCEPT !.job = v] : v \in valid_jobs \cup {""}}
    \cup {[ValidFields EXCEPT !.housing = v] : v \in valid_housing \cup {NULL}}
    \cup {[ValidFields EXCEPT !.saving_accounts = v] :
              v \in valid_savings \cup {"high"}}
    \cup {[ValidFields EXCEPT !.checking_account = v] :
              v \in valid_checking \cup {"quite rich"}}
    \cup {[ValidFields EXCEPT !.credit_amount = <<n>>] : n \in {-1, 1}}
    \cup {[ValidFields EXCEPT !.duration = <<n>>] : n \in {-1, 1, 120, 240}}
    \cup {[ValidFields EXCEPT !.purpose = v] : v \in valid_purposes \cup {"loan"}}

FieldSets == Combinations \cup AtTheLimits

\* A call of validate_parsed_fields and its return.
InitValidate ==
    /\ EmptyTables
    /\ ml \in Conditions({"ok"}, {"ok"})
    /\ budget = 0
    /\ \E fields \in FieldSets :
          call = [fn |-> "validate_parsed_fields", pc |-> "called",
                  args |-> fields, result |-> NULL]

validate_return ==
    /\ call.fn = "validate_parsed_fields"
    /\ call.pc = "called"
    /\ call' = [call EXCEPT !.pc = "returned",
                            !.result = validate_parsed_fields(call.args)]
    /\ UNCHANGED <<pipeline, budget, history, dossiers, dossier_files, gen,
                   user_data>>

NextValidate == validate_return

SpecValidate == InitValidate /\ [][NextValidate]_vars

\* --------------------------------------- classify_job_category on its own
\* The texts the function is called with: up to MaxWords pieces put
\* together, the pieces being words of each category, a space and a
\* letter, so that a word stands alone or inside a longer word.
JobPieces ==
    { <<"u", "n", "e", "m", "p", "l", "o", "y", "e", "d">>,
      <<"U", "n", "e", "m", "p", "l", "o", "y", "e", "d">>,
      <<"e", "n", "g", "i", "n", "e", "e", "r">>,
      <<"n", "u", "r", "s", "e">>,
      <<"h", "e", "l", "p", "e", "r">>,
      <<"j", "o", "b">>,
      <<" ">>,
      <<"x">> }

RECURSIVE Concat(_)
Concat(pieces) ==
    IF pieces = <<>> THEN <<>> ELSE Head(pieces) \o Concat(Tail(pieces))

JobTexts ==
    {Concat(pieces) :
        pieces \in UNION {[1..n -> JobPieces] : n \in 0..MaxWords}}

InitJob ==
    /\ EmptyTables
    /\ ml \in Conditions({"ok"}, {"ok"})
    /\ budget = 0
    /\ \E text \in JobTexts :
          call = [fn |-> "classify_job_category", pc |-> "called",
                  args |-> text, result |-> NULL]

classify_return ==
    /\ call.fn = "classify_job_category"
    /\ call.pc = "called"
    /\ call' = [call EXCEPT !.pc = "returned",
                            !.result = classify_job_category(call.args)]
    /\ UNCHANGED <<pipeline, budget, history, dossiers, dossier_files, gen,
                   user_data>>

NextJob == classify_return

SpecJob == InitJob /\ [][NextJob]_vars

\* ------------------------------------------------- extract_age on its own
\* The texts the function is called with: up to MaxWords pieces put
\* together, the pieces being statements of an age, a page number, a date
\* of birth, a digit and a space.
AgePieces ==
    { <<"a", "g", "e", ":", " ", "3", "7">>,
      <<"p", "a", "g", "e", ":", " ", "1", "2">>,
      <<"a", "g", "e", ":", " ", "1", "7">>,
      <<"d", "o", "b", ":", " ", "0", "1", "/", "0", "1", "/", "1", "9", "9", "0">>,
      <<"3", "7", " ", "y", "e", "a", "r", "s", " ", "o", "l", "d">>,
      <<"1">>,
      <<" ">> }

AgeTexts ==
    {Concat(pieces) :
        pieces \in UNION {[1..n -> AgePieces] : n \in 0..MaxWords}}

InitAge ==
    /\ EmptyTables
    /\ ml \in Conditions({"ok"}, {"ok"})
    /\ budget = 0
    /\ \E text \in AgeTexts :
          call = [fn |-> "extract_age", pc |-> "called",
                  args |-> text, result |-> NULL]

extract_age_return ==
    /\ call.fn = "extract_age"
    /\ call.pc = "called"
    /\ call' = [call EXCEPT !.pc = "returned",
                            !.result = extract_age(call.args)]
    /\ UNCHANGED <<pipeline, budget, history, dossiers, dossier_files, gen,
                   user_data>>

NextAge == extract_age_return

SpecAge == InitAge /\ [][NextAge]_vars

\* --------------------------------------- classify_loan_purpose on its own
\* The texts the function is called with: up to MaxWords pieces put
\* together, the pieces being the start of a purpose field, words with
\* and without a keyword, a space and a full stop.
PurposePieces ==
    { <<"P", "u", "r", "p", "o", "s", "e", ":">>,
      <<" ">>,
      <<"c", "a", "r">>,
      <<"s", "t", "u", "d", "y">>,
      <<"t", "r", "i", "p">>,
      <<"v", "a", "c", "a", "t", "i", "o", "n">>,
      <<"f", "i", "x">>,
      <<".">> }

PurposeTexts ==
    {Concat(pieces) :
        pieces \in UNION {[1..n -> PurposePieces] : n \in 0..MaxWords}}

InitPurpose ==
    /\ EmptyTables
    /\ ml \in Conditions({"ok"}, {"ok"})
    /\ budget = 0
    /\ \E text \in PurposeTexts :
          call = [fn |-> "classify_loan_purpose", pc |-> "called",
                  args |-> text, result |-> NULL]

classify_loan_purpose_return ==
    /\ call.fn = "classify_loan_purpose"
    /\ call.pc = "called"
    /\ call' = [call EXCEPT !.pc = "returned",
                            !.result = classify_loan_purpose(call.args)]
    /\ UNCHANGED <<pipeline, budget, history, dossiers, dossier_files, gen,
                   user_data>>

NextPurpose == classify_loan_purpose_return

SpecPurpose == InitPurpose /\ [][NextPurpose]_vars

\* ------------------------------------------ parse_credit_fields on its own
\* The sentences of a credit application.
Sentences ==
    << <<"A", "g", "e", ":", " ", "4", "5", " ", "y", "e", "a", "r", "s", ".">>,
       <<"O", "c", "c", "u", "p", "a", "t", "i", "o", "n", ":", " ", "u", "n", "e", "m", "p", "l", "o", "y", "e", "d", ".">>,
       <<"H", "o", "u", "s", "i", "n", "g", ":", " ", "o", "w", "n", ".">>,
       <<"L", "o", "a", "n", " ", "a", "m", "o", "u", "n", "t", ":", " ", "R", "s", ".", " ", "5", "0", "0", "0", "0", ".">>,
       <<"D", "u", "r", "a", "t", "i", "o", "n", ":", " ", "2", "4", " ", "m", "o", "n", "t", "h", "s", ".">>,
       <<"P", "u", "r", "p", "o", "s", "e", ":", " ", "e", "d", "u", "c", "a", "t", "i", "o", "n", ".">> >>

\* Sentences with an age, a duration and an amount outside the ranges.
OtherSentences ==
    << <<"A", "g", "e", ":", " ", "1", "7", " ", "y", "e", "a", "r", "s", ".">>,
       <<"D", "u", "r", "a", "t", "i", "o", "n", ":", " ", "5", "0", "0", " ", "m", "o", "n", "t", "h", "s", ".">>,
       <<"C", "r", "e", "d", "i", "t", ":", " ", "0", ".">> >>

AllSentences == Sentences \o OtherSentences

RECURSIVE Chosen(_, _)
\* The sentences from number k on that are in the set, with a space
\* between two of them.
Chosen(which, k) ==
    IF k > Len(AllSentences) THEN <<>>
    ELSE IF k \notin which THEN Chosen(which, k + 1)
    ELSE IF \E j \in which : j > k
         THEN AllSentences[k] \o <<" ">> \o Chosen(which, k + 1)
         ELSE AllSentences[k]

\* The application, and the texts made of any of all the sentences.
SampleText == Chosen(1..Len(Sentences), 1)
SampleTexts == {Chosen(which, 1) : which \in SUBSET (1..Len(AllSentences))}

\* A duration of one digit more than int() takes where it is limited.
LongDurationText ==
    [k \in 1..(int_max_str_digits + 1) |-> "9"] \o <<" ", "m", "o", "n", "t", "h", "s", " ", "l", "o", "a", "n">>

ParseTexts == SampleTexts \cup {LongDurationText}

\* A call of parse_credit_fields and its return, on an interpreter that
\* limits int() or on one that does not.
InitParse ==
    /\ EmptyTables
    /\ ml \in Conditions({"ok"}, {"ok"})
    /\ budget = 0
    /\ \E text \in ParseTexts, limited \in BOOLEAN :
          call = [fn |-> "parse_credit_fields", pc |-> "called",
                  args |-> text, limited |-> limited, result |-> NULL]

parse_credit_fields_return ==
    /\ call.fn = "parse_credit_fields"
    /\ call.pc = "called"
    /\ call' = [call EXCEPT
                  !.pc = "returned",
                  !.result = parse_credit_fields_text(call.args, call.limited)]
    /\ UNCHANGED <<pipeline, budget, history, dossiers, dossier_files, gen,
                   user_data>>

NextParse == parse_credit_fields_return

SpecParse == InitParse /\ [][NextParse]_vars

\* ------------------------------- classify_savings_level, _checking_level
\* The pieces the texts of balances are made of: the two account words,
\* a word of the rich rule and digits that reach both sides of every limit.
BalancePieces ==
    { <<"s", "a", "v", "i", "n", "g", ":", " ">>,
      <<"c", "h", "e", "c", "k", "i", "n", "g", ":", " ">>,
      <<"h", "i", "g", "h", " ">>,
      <<"0">>,
      <<"5">>,
      <<"1", "0", "0", "0">>,
      <<"0", "0", "0">> }

BalanceTexts ==
    {Concat(pieces) :
        pieces \in UNION {[1..n -> BalancePieces] : n \in 0..MaxWords}}

\* A call of one of the two functions and its return.
InitBalance ==
    /\ EmptyTables
    /\ ml \in Conditions({"ok"}, {"ok"})
    /\ budget = 0
    /\ \E text \in BalanceTexts,
          fn \in {"classify_savings_level", "classify_checking_level"} :
          call = [fn |-> fn, pc |-> "called", args |-> text, result |-> NULL]

classify_savings_level_return ==
    /\ call.fn = "classify_savings_level"
    /\ call.pc = "called"
    /\ call' = [call EXCEPT !.pc = "returned",
                            !.result = classify_savings_level(call.args)]
    /\ UNCHANGED <<pipeline, budget, history, dossiers, dossier_files, gen,
                   user_data>>

classify_checking_level_return ==
    /\ call.fn = "classify_checking_level"
    /\ call.pc = "called"
    /\ call' = [call EXCEPT !.pc = "returned",
                            !.result = classify_checking_level(call.args)]
    /\ UNCHANGED <<pipeline, budget, history, dossiers, dossier_files, gen,
                   user_data>>

NextBalance ==
    \/ classify_savings_level_return
    \/ classify_checking_level_return

SpecBalance == InitBalance /\ [][NextBalance]_vars

\* ------------------------------------------------------------ POST /logout
\* The tables delete_user_data_on_logout deletes from, in the order of its
\* deletes, the table it keeps, and the buckets in the order of its removes.
DeleteOrder ==
    <<"extracted_texts", "heatmaps", "analyses", "dossiers", "documents">>
RemoveOrder == <<"documents", "heatmaps", "dossiers">>
UserTables == {DeleteOrder[k] : k \in 1..Len(DeleteOrder)}
Buckets == {RemoveOrder[k] : k \in 1..Len(RemoveOrder)}

\* What the uploads, runs, dossiers and anchorings of a user have left: no
\* document; an analysed document; one with a heatmap; one with a heatmap
\* and a dossier; and with or without a certificate for it.
TablesWith(stage, certificate) ==
    (IF stage >= 1 THEN {"documents", "extracted_texts", "analyses"} ELSE {})
    \cup (IF stage >= 2 THEN {"heatmaps"} ELSE {})
    \cup (IF stage >= 3 THEN {"dossiers"} ELSE {})
    \cup (IF certificate THEN {"blockchain_certificates"} ELSE {})

BucketsWith(stage) ==
    (IF stage >= 1 THEN {"documents"} ELSE {})
    \cup (IF stage >= 2 THEN {"heatmaps"} ELSE {})
    \cup (IF stage >= 3 THEN {"dossiers"} ELSE {})

UserStages == {<<0, FALSE>>} \cup ((1..3) \X BOOLEAN)

\* The stores the users can have left: profiles holds the users with a
\* profile row, remember_me those whose row has remember_me on.
UserStores ==
    {[rows |-> [t \in UserTables \cup {"blockchain_certificates"} |->
                  {u \in Users : t \in TablesWith(of[u][1], of[u][2])}],
      files |-> [b \in Buckets |-> {u \in Users : b \in BucketsWith(of[u][1])}],
      profiles |-> known[1], remember_me |-> known[2],
      audit_logs |-> <<>>] :
        of \in [Users -> UserStages],
        known \in {k \in (SUBSET Users) \X (SUBSET Users) : k[2] \subseteq k[1]}}

\* POST /logout: the token is verified and delete_user_data_on_logout is
\* called for its user.
logout(u) ==
    /\ IF call.fn = "none" THEN TRUE ELSE call.pc = "returned"
    /\ Len(history) < MaxOps
    /\ history' = Append(history, <<"logout", u>>)
    /\ call' = [fn |-> "delete_user_data_on_logout", pc |-> "remember_me",
                user_id |-> u, remember_me |-> NULL,
                doc_paths |-> FALSE, heatmap_paths |-> FALSE,
                dossier_paths |-> FALSE, step |-> 1, result |-> NULL,
                \* read by the properties only
                before |-> user_data, unread |-> FALSE, faults |-> 0]
    /\ UNCHANGED <<pipeline, budget, dossiers, dossier_files, gen, user_data>>

\* A store or storage call after the read of the profile has failed.
Fault(c, outcome) ==
    IF outcome = "ok" THEN c ELSE [c EXCEPT !.faults = @ + 1]

\* get_user_remember_me: the remember_me of the profile, False when the
\* profile has no row or cannot be read.
get_user_remember_me(store, u, outcome) ==
    IF outcome = "ok" /\ u \in store.profiles
    THEN u \in store.remember_me
    ELSE FALSE

\* delete_user_data_on_logout up to its first return: with remember_me the
\* data is kept and False returned.
check_remember_me ==
    /\ call.fn = "delete_user_data_on_logout"
    /\ call.pc = "remember_me"
    /\ \E outcome \in Outcomes({"ok", "raise"}) :
        LET remember_me ==
                get_user_remember_me(user_data, call.user_id, outcome)
            c == [call EXCEPT !.remember_me = remember_me,
                              !.unread = outcome # "ok"]
        IN  /\ Spend(outcome)
            /\ call' = IF remember_me
                       THEN [c EXCEPT !.pc = "returned", !.result = FALSE]
                       ELSE [c EXCEPT !.pc = "select"]
    /\ UNCHANGED <<pipeline, history, dossiers, dossier_files, gen, user_data>>

\* Steps 1 to 3: the selects of the document, heatmap and dossier rows of
\* the user; the dossier paths are made from the document ids.  An
\* exception of a select ends in the except clause.
select_paths ==
    /\ call.fn = "delete_user_data_on_logout"
    /\ call.pc = "select"
    /\ \E outcome \in Outcomes({"ok", "raise"}) :
        /\ Spend(outcome)
        /\ call' =
             IF outcome = "ok"
             THEN [call EXCEPT
                     !.pc = "remove",
                     !.doc_paths = call.user_id \in user_data.rows["documents"],
                     !.heatmap_paths = call.user_id \in user_data.rows["heatmaps"],
                     !.dossier_paths = call.user_id \in user_data.rows["documents"]]
             ELSE [Fault(call, outcome) EXCEPT !.pc = "cleanup_error"]
    /\ UNCHANGED <<pipeline, history, dossiers, dossier_files, gen, user_data>>

\* The paths collected for a bucket are not empty.
HasPaths(c, bucket) ==
    CASE bucket = "documents" -> c.doc_paths
      [] bucket = "heatmaps"  -> c.heatmap_paths
      [] bucket = "dossiers"  -> c.dossier_paths

\* The position after step k of n: the next step, or the next part.
After(c, n, next) ==
    IF c.step < n THEN [c EXCEPT !.step = @ + 1]
    ELSE [c EXCEPT !.step = 1, !.pc = next]

\* Step 4: the files are removed from one bucket when there are paths for
\* it; an exception of the remove is passed over.
remove_files ==
    /\ call.fn = "delete_user_data_on_logout"
    /\ call.pc = "remove"
    /\ LET bucket == RemoveOrder[call.step]
       IN  IF ~HasPaths(call, bucket)
           THEN /\ call' = After(call, Len(RemoveOrder), "delete")
                /\ UNCHANGED <<user_data, budget>>
           ELSE \E outcome \in Outcomes({"ok", "raise"}) :
                /\ Spend(outcome)
                /\ call' = After(Fault(call, outcome), Len(RemoveOrder), "delete")
                /\ user_data' =
                     IF outcome = "ok"
                     THEN [user_data EXCEPT
                             !.files[bucket] = @ \ {call.user_id}]
                     ELSE user_data
    /\ UNCHANGED <<pipeline, history, dossiers, dossier_files, gen>>

\* Step 5: the rows of the user are deleted from one table; an exception
\* of the delete ends in the except clause.
delete_records ==
    /\ call.fn = "delete_user_data_on_logout"
    /\ call.pc = "delete"
    /\ \E outcome \in Outcomes({"ok", "raise"}) :
        /\ Spend(outcome)
        /\ IF outcome = "ok"
           THEN /\ user_data' =
                     [user_data EXCEPT
                        !.rows[DeleteOrder[call.step]] = @ \ {call.user_id}]
                /\ call' = After(call, Len(DeleteOrder), "update_profile")
           ELSE /\ UNCHANGED user_data
                /\ call' = [Fault(call, outcome) EXCEPT !.pc = "cleanup_error"]
    /\ UNCHANGED <<pipeline, history, dossiers, dossier_files, gen>>

\* Step 6: remember_me of the profile is set to False.
update_profile ==
    /\ call.fn = "delete_user_data_on_logout"
    /\ call.pc = "update_profile"
    /\ \E outcome \in Outcomes({"ok", "raise"}) :
        /\ Spend(outcome)
        /\ IF outcome = "ok"
           THEN /\ user_data' =
                     [user_data EXCEPT !.remember_me = @ \ {call.user_id}]
                /\ call' = [call EXCEPT !.pc = "log"]
           ELSE /\ UNCHANGED user_data
                /\ call' = [Fault(call, outcome) EXCEPT !.pc = "cleanup_error"]
    /\ UNCHANGED <<pipeline, history, dossiers, dossier_files, gen>>

\* log_action: an exception of the insert is passed over.
Logged(store, u, action, outcome) ==
    IF outcome = "ok"
    THEN [store EXCEPT !.audit_logs = Append(@, <<u, action>>)]
    ELSE store

\* Step 7: the cleanup is logged and True returned.
log_cleanup ==
    /\ call.fn = "delete_user_data_on_logout"
    /\ call.pc = "log"
    /\ \E outcome \in Outcomes({"ok", "raise"}) :
        /\ Spend(outcome)
        /\ user_data' = Logged(user_data, call.user_id,
                               "delete_user_data_on_logout", outcome)
        /\ call' = [Fault(call, outcome) EXCEPT
                      !.pc = "returned", !.result = TRUE]
    /\ UNCHANGED <<pipeline, history, dossiers, dossier_files, gen>>

\* The except clause: the error is logged and False returned.
cleanup_error ==
    /\ call.fn = "delete_user_data_on_logout"
    /\ call.pc = "cleanup_error"
    /\ \E outcome \in Outcomes({"ok", "raise"}) :
        /\ Spend(outcome)
        /\ user_data' = Logged(user_data, call.user_id, "cleanup_error", outcome)
        /\ call' = [Fault(call, outcome) EXCEPT
                      !.pc = "returned", !.result = FALSE]
    /\ UNCHANGED <<pipeline, history, dossiers, dossier_files, gen>>

\* The users have left their data; the store and storage calls of a logout
\* fail at most MaxFaults times.
InitLogout ==
    /\ PipelineTables
    /\ call = NoCall
    /\ ml \in Conditions({"ok"}, {"ok"})
    /\ budget = MaxFaults
    /\ user_data \in UserStores

NextLogout ==
    \/ \E u \in Users : logout(u)
    \/ check_remember_me
    \/ select_paths
    \/ remove_files
    \/ delete_records
    \/ update_profile
    \/ log_cleanup
    \/ cleanup_error

SpecLogout == InitLogout /\ [][NextLogout]_vars

\* ------------------------------------------------------------ properties
\* The analyses rows and the extracted_texts rows of a document.
RecordsOf(d) == SelectRows(analyses, d)
TextsOf(d)   == SelectRows(extracted_texts, d)

\* A row whose risk is the error payload alone, with compliance and
\* crossverify empty.
IsErrorRecord(r) ==
    /\ DOMAIN r.risk = {"error", "status"}
    /\ DOMAIN r.compliance = {}
    /\ DOMAIN r.crossverify = {}

\* A row that bundles the three outcomes with the parsed fields.
IsFullRecord(r) ==
    /\ {"parsed_fields", "validation_errors", "raw_ml_response"}
           \subseteq DOMAIN r.risk
    /\ DOMAIN r.compliance # {}
    /\ DOMAIN r.crossverify # {}

\* The invocation is a run of the pipeline that has ended.
RunEnded(p) == Ended(p) /\ inv[p].ran

\* The three scoring calls of the invocation were made and each failed with
\* a connection error.
AllCallsRefused(p) ==
    /\ inv[p].calls = <<"predict", "compliance", "crossverify">>
    /\ ml.predict = "connection"
    /\ ml.compliance = "connection"
    /\ ml.crossverify = "connection"

\* The row the invocation inserted at step 7 is stored with these statuses.
StoredStatuses(p, risk, others) ==
    \E i \in 1..Len(analyses) :
        /\ analyses[i].id = inv[p].analysis_id
        /\ analyses[i].document_id = inv[p].document_id
        /\ analyses[i].risk.raw_ml_response.status \in risk
        /\ analyses[i].compliance.status \in others
        /\ analyses[i].crossverify.status \in others

C2_ExactlyOneRecord ==
    \A p \in Procs :
        RunEnded(p) =>
            /\ inv[p].pc = "returned" => inv[p].ins = <<"full">>
            /\ inv[p].pc = "raised" => inv[p].ins = <<"error">>

\* A run that has inserted the full record and then, the status write to
\* done having failed, the error record as well.
C2_BothRecords ==
    \E p \in Procs :
        /\ RunEnded(p)
        /\ inv[p].ins = <<"full", "error">>
        /\ inv[p].fails = {"done_update"}
        /\ status[inv[p].document_id] = "failed"

\* The last two requests were reruns of document d, and the second has
\* ended in invocation p.
SecondRerunEnded(p, d) ==
    /\ Ended(p)
    /\ inv[p].op = "rerun" /\ inv[p].document_id = d
    /\ status[d] # "absent"
    /\ Len(history) >= 2
    /\ history[Len(history)] = <<"rerun", d>>
    /\ history[Len(history) - 1] = <<"rerun", d>>

\* One record of the document, and one extracted_texts row per page.
OneRecordAndAllPages(d) ==
    /\ Len(RecordsOf(d)) = 1
    /\ Len(TextsOf(d)) = Len(pdf[d])

\* C3: two reruns one after the other leave one record and as many
\* extracted_texts rows as the PDF has pages.
C3_RerunIdempotence ==
    \A p \in Procs, d \in Docs :
        SecondRerunEnded(p, d) => OneRecordAndAllPages(d)

\* Two reruns one after the other that leave two records: in the second,
\* only the status write to done has failed.
C3_TwoRecords ==
    \E p \in Procs, d \in Docs :
        /\ SecondRerunEnded(p, d)
        /\ inv[p].fails \subseteq {"done_update", "validation"}
        /\ Len(RecordsOf(d)) = 2
        /\ Len(TextsOf(d)) = Len(pdf[d])

\* The failures of a rerun that change what it leaves in the two tables.
RerunFaults ==
    {"rerun_status", "rerun_delete_analyses", "rerun_delete_texts",
     "download", "pdf", "page_extract", "page_insert",
     "done_update", "error_insert"}

\* What does hold of two reruns one after the other: one record and as
\* many extracted_texts rows as the PDF has pages are left when, in the
\* second rerun, none of these calls fails.
RerunIdempotentUnlessFault ==
    \A p \in Procs, d \in Docs :
        (SecondRerunEnded(p, d) /\ inv[p].fails \cap RerunFaults = {}) =>
            OneRecordAndAllPages(d)

\* The status changes of the lifecycle; processing is re-entered by a
\* rerun only.
LifecycleSteps ==
    {<<"absent", "processing">>, <<"processing", "done">>,
     <<"processing", "failed">>, <<"done", "processing">>,
     <<"failed", "processing">>}

\* C4: a document's status changes only along the lifecycle: never from
\* done to failed or from failed to done.
C4_Lifecycle ==
    [][\A d \in Docs :
          status'[d] # status[d] => <<status[d], status'[d]>> \in LifecycleSteps
      ]_vars

\* The texts the extraction has returned are all empty (or there are none).
NothingExtracted(p) ==
    /\ inv[p].ran
    /\ inv[p].fails \cap {"download", "pdf"} = {}
    /\ inv[p].page > Len(pdf[inv[p].document_id])
    /\ \A i \in 1..Len(inv[p].texts) : inv[p].texts[i][2] = ""

\* The last record of the document is the error record of invocation p.
ErrorRecordStored(p) ==
    LET rows == RecordsOf(inv[p].document_id) IN
    /\ inv[p].ins = <<"error">>
    /\ rows # <<>>
    /\ IsErrorRecord(rows[Len(rows)])
    /\ rows[Len(rows)].risk.error = inv[p].exc

C6_DoneHasRecord ==
    \A d \in Docs :
        status[d] = "done" =>
            \E i \in 1..Len(analyses) :
                analyses[i].document_id = d /\ IsFullRecord(analyses[i])

C6_Witness ==
    /\ Quiet
    /\ Len(history) = MaxOps
    /\ \E d \in Docs : status[d] = "done"
    /\ ml.predict = "connection"
    /\ ml.compliance = "connection"
    /\ ml.crossverify = "connection"

\* C7: when no invocation is under way, every document whose status is
\* failed has records, and they are error records only.
C7_FailedHasErrorOnly ==
    Quiet =>
        \A d \in Docs :
            status[d] = "failed" =>
                /\ RecordsOf(d) # <<>>
                /\ \A i \in 1..Len(analyses) :
                       analyses[i].document_id = d => IsErrorRecord(analyses[i])

\* A failed document that keeps a full record: a manually triggered run of
\* a document that was done has failed in the extraction, no store call
\* having failed.
C7_FailedWithFullRecord ==
    /\ Quiet
    /\ \E p \in Procs, d \in Docs :
          /\ inv[p].op = "analyze" /\ inv[p].document_id = d
          /\ inv[p].pc = "raised"
          /\ inv[p].fails \subseteq {"download", "pdf"}
          /\ status[d] = "failed"
          /\ \E i \in 1..Len(analyses) :
                analyses[i].document_id = d /\ IsFullRecord(analyses[i])

\* The failures that make the pipeline raise: of the extraction, and of
\* the store writes of steps 7 and 9.
Fatal ==
    {"download", "pdf", "no_text", "blank_text",
     "analysis_insert", "done_update"}

C10_RerunSequence ==
    \A p \in Procs :
        LET d == inv[p].document_id IN
        inv[p].op = "rerun" =>
            /\ inv[p].pc \in {"rerun_delete_analyses", "rerun_delete_texts",
                              "download"} => status[d] = "processing"
            /\ inv[p].pc \in {"rerun_delete_texts", "download"} =>
                   RecordsOf(d) = <<>>
            /\ inv[p].pc = "download" => TextsOf(d) = <<>>
            /\ inv[p].pc \in {"rerun_status", "rerun_delete_analyses",
                              "rerun_delete_texts"} => ~inv[p].ran

C10_Witness ==
    \E p \in Procs :
        /\ inv[p].op = "rerun"
        /\ inv[p].pc = "download"
        /\ nextId > 1
        /\ Len(pdf[inv[p].document_id]) > 0

\* The record invocation p has inserted is stored.
RecordOfRun(p) ==
    \E i \in 1..Len(analyses) : analyses[i].id = inv[p].analysis_id

\* C11: nothing synchronizes the invocations for a document.  The delete
\* of a rerun removes every record of the document, those that
\* invocations still under way have inserted included, and the insert of
\* a run appends its record to whatever records the document has.  So
\* overlapping invocations can leave more than one record, and a run can
\* reach status done with its record deleted (C11_Witness).
C11_Unsynchronized ==
    [][\A p \in Procs :
          /\ (inv[p].pc = "rerun_delete_analyses"
                 /\ inv'[p].pc = "rerun_delete_texts") =>
                SelectRows(analyses', inv[p].document_id) = <<>>
          /\ (inv[p].pc = "store" /\ inv'[p].pc = "heatmap") =>
                /\ Len(analyses') = Len(analyses) + 1
                /\ SubSeq(analyses', 1, Len(analyses)) = analyses
                /\ analyses'[Len(analyses')].id = inv'[p].analysis_id
      ]_vars

\* Three invocations for one document have overlapped and ended: the
\* document has two records, and a run that overlapped a rerun has
\* returned, the status is done and the record the run inserted is gone.
C11_Witness ==
    /\ Quiet
    /\ \E a, r \in Procs, d \in Docs :
          /\ \A p \in Procs : inv[p].document_id = d /\ inv[p].ran
          /\ inv[a].op \in {"upload", "analyze"}
          /\ inv[a].pc = "returned"
          /\ inv[a].ins = <<"full">>
          /\ ~RecordOfRun(a)
          /\ inv[r].op = "rerun"
          /\ status[d] = "done"
          /\ Len(RecordsOf(d)) > 1

\* C12: the status write that ends a run (to done, to failed) takes effect
\* only when the status is still processing; made on another status it
\* changes nothing and the invocation does not return its result.
C12_CompareAndSwap ==
    [][\A p \in Procs :
          (/\ inv[p].pc \in {"set_done", "set_failed"}
           /\ inv'[p].pc # inv[p].pc
           /\ status[inv[p].document_id] # "processing") =>
              /\ status' = status
              /\ inv'[p].pc # "returned"
      ]_vars

\* Two overlapping runs: the second has written done on the status done
\* that the first had written, and has returned its result.
C12_SecondWriteLands ==
    \E p, q \in Procs :
        /\ p # q
        /\ inv[p].pc = "returned" /\ inv[q].pc = "returned"
        /\ inv[p].op = "upload" /\ inv[q].op = "analyze"
        /\ status[inv[p].document_id] = "done"
        /\ Len(RecordsOf(inv[p].document_id)) = 2

\* C13: a dossier (its file, its row) is created only by a request whose
\* select found the document of the caller with status done; a request
\* that reads another status ends with an error and creates nothing.
C13_DossierGate ==
    [][/\ (dossiers' # dossiers \/ dossier_files' # dossier_files) =>
            /\ gen.status_read = "done"
            /\ gen.caller = Owner(gen.document_id)
            /\ status[gen.document_id] # "absent"
       /\ gen'.pc \in {"gate", "idle"}
            \/ (gen'.status_read \in {"processing", "failed"}
                    <=> gen'.pc = "error_400")
       /\ gen.pc \in {"error_400", "error_404"} =>
            dossiers' = dossiers /\ dossier_files' = dossier_files
      ]_vars

\* The owner's request has created the dossier of a done document after
\* an earlier request was refused.
C13_Witness ==
    /\ gen.pc = "returned"
    /\ Len(dossiers) = 1
    /\ dossier_files # {}
    /\ status[gen.document_id] = "done"
    /\ Len(history) = MaxOps


\* The validator has rejected the field set of invocation p because
\* credit_amount is absent.
CreditAmountMissing(p) ==
    /\ RunEnded(p)
    /\ "validation" \in inv[p].fails
    /\ inv[p].parsed_fields.credit_amount = <<>>

\* The record of invocation p is stored and carries the messages of the
\* validator, the one about credit_amount among them.
RecordWithMessages(p) ==
    \E i \in 1..Len(analyses) :
        /\ analyses[i].id = inv[p].analysis_id
        /\ IsFullRecord(analyses[i])
        /\ analyses[i].risk.validation_errors =
               validate_parsed_fields(
                   parse_credit_fields(FullText(inv[p].texts)))[2]
        /\ analyses[i].risk.validation_errors =
               <<"Credit amount not found in document">>
        /\ analyses[i].risk.parsed_fields.validation_errors_key =
               analyses[i].risk.validation_errors

ThreeScoringCalls(p) ==
    inv[p].calls = <<"predict", "compliance", "crossverify">>

CarriesHeatmap(p) ==
    /\ inv[p].calls # <<>>
    /\ \/ inv[p].risk_result.heatmap_base64 = "png"
       \/ inv[p].risk_result.heatmap_url # NULL

CarriesNoHeatmap(p) ==
    /\ inv[p].calls # <<>>
    /\ inv[p].risk_result.heatmap_base64 = NULL
    /\ inv[p].risk_result.heatmap_url = NULL

\* No store or storage call of invocation p has failed.
StoreAccepts(p) ==
    inv[p].fails \subseteq {"risk", "compliance", "crossverify", "validation"}

HeatmapRowOf(p) ==
    \E i \in 1..Len(heatmaps) : heatmaps[i].analysis_id = inv[p].analysis_id

\* C15: when the answer of the risk service carries a heatmap
\* (heatmap_base64 not empty, or a heatmap_url) and the store accepts the
\* writes, the run stores a heatmap row linked to the id of the new
\* analysis; when the answer carries neither, no heatmap row is written.
C15_HeatmapForwarded ==
    \A p \in Procs :
        RunEnded(p) =>
            /\ CarriesHeatmap(p) /\ StoreAccepts(p) =>
                  /\ inv[p].analysis_id > 0
                  /\ HeatmapRowOf(p)
            /\ CarriesNoHeatmap(p) => heatmaps = <<>>

\* A run whose risk answer carried a heatmap_url has returned, every
\* store call having succeeded, and no heatmap row exists.
C15_UrlDropped ==
    \E p \in Procs :
        /\ RunEnded(p)
        /\ inv[p].pc = "returned"
        /\ inv[p].calls # <<>>
        /\ inv[p].risk_result.heatmap_url = "url"
        /\ inv[p].fails = {}
        /\ RecordOfRun(p)
        /\ heatmaps = <<>>


\* What the pipeline does with the heatmap: image data that decodes is
\* stored when the store accepts the writes, and a run whose answer has
\* no image data writes no heatmap row, a heatmap_url notwithstanding.
HeatmapBase64Only ==
    \A p \in Procs :
        RunEnded(p) /\ inv[p].calls # <<>> =>
            /\ inv[p].risk_result.heatmap_base64 = "png" /\ StoreAccepts(p) =>
                  HeatmapRowOf(p)
            /\ inv[p].risk_result.heatmap_base64 = NULL => heatmaps = <<>>


\* The decoding, the upload or the row insert of the heatmap of
\* invocation p has failed.
HeatmapLost(p) == RunEnded(p) /\ "heatmap" \in inv[p].fails

Validated == call.fn = "validate_parsed_fields" /\ call.pc = "returned"

\* The messages of the nine checks for a field set, in the order of the
\* checks, and the checks the field set fails.
Checks(fields) ==
    <<AgeErrors(fields), GenderErrors(fields), JobErrors(fields),
      HousingErrors(fields), SavingsErrors(fields), CheckingErrors(fields),
      CreditAmountErrors(fields), DurationErrors(fields),
      PurposeErrors(fields)>>

Violating(fields) == {k \in 1..9 : Checks(fields)[k] # <<>>}

\* C17: validate_parsed_fields checks all nine fields and returns exactly
\* one message for each field that fails its check, in the order age,
\* gender, job, housing, savings, checking, credit_amount, duration,
\* purpose; is_valid is true if and only if the list is empty.
C17_Accumulation ==
    Validated =>
        LET is_valid == call.result[1]
            errors   == call.result[2]
            failing  == Violating(call.args)
        IN  /\ Len(errors) = Cardinality(failing)
            /\ \A k \in failing :
                  LET i == Cardinality({j \in failing : j <= k})
                  IN  <<errors[i]>> = Checks(call.args)[k]
            /\ \A i, j \in 1..Len(errors) : i # j => errors[i] # errors[j]
            /\ is_valid <=> errors = <<>>

C17_Witness ==
    /\ Validated
    /\ Violating(call.args) = 1..9
    /\ Len(call.result[2]) = 9
    /\ call.result[2][1] = "Age not found in document"
    /\ call.result[2][8] = "Duration must be positive (in months)"
    /\ call.result[1] = FALSE

\* The domain of the field set in the data model.
InDomain(fields) ==
    /\ fields.age # <<>> /\ fields.age[1] \in 18..100
    /\ fields.gender \in {"male", "female"}
    /\ fields.job \in valid_jobs
    /\ fields.housing \in valid_housing
    /\ fields.saving_accounts \in valid_savings
    /\ fields.checking_account \in valid_checking
    /\ fields.purpose \in valid_purposes
    /\ fields.credit_amount # <<>> /\ fields.credit_amount[1] > 0
    /\ fields.duration # <<>> /\ fields.duration[1] \in 1..120

\* C18: validate_parsed_fields returns is_valid true only when every
\* field is present and inside its domain: age in 18..100, gender male
\* or female, job, housing, savings, checking and purpose in their
\* enumerations, credit_amount positive and duration in 1..120; a field
\* set with a duration above 120 is reported invalid.
C18_DomainEnforced ==
    Validated => (call.result[1] => InDomain(call.args))

\* A field set whose only flaw is a duration of 240 months has been
\* reported valid, with no message.
C18_LongDurationValid ==
    /\ Validated
    /\ call.args = [ValidFields EXCEPT !.duration = <<240>>]
    /\ call.result = <<TRUE, <<>>>>

\* What the validator enforces: the domain but for the upper limit of the
\* duration.
DomainButDurationLimit ==
    Validated =>
        (call.result[1] <=>
            InDomain([call.args EXCEPT !.duration =
                IF @ # <<>> /\ @[1] > 120 THEN <<120>> ELSE @]))


\* A call of classify_job_category has returned.
Classified == call.fn = "classify_job_category" /\ call.pc = "returned"

\* The text has the word as a token: an occurrence of it, in capitals or
\* not, with no word character before it and none after it.
HasToken(text, word) ==
    \E i \in 1..(Len(text) - Len(word) + 1) :
        /\ Lower(SubSeq(text, i, i + Len(word) - 1)) = word
        /\ i > 1 => ~IsWordChar(text[i - 1])
        /\ i + Len(word) <= Len(text) => ~IsWordChar(text[i + Len(word)])

Unemployed == <<"u", "n", "e", "m", "p", "l", "o", "y", "e", "d">>

\* C19: for every text that contains the token "unemployed",
\* classify_job_category returns "unemployed", whatever keywords of the
\* highly skilled, skilled and unskilled categories and whatever mentions
\* of an employment the text contains as well.
C19_UnemployedFirst ==
    Classified =>
        (HasToken(call.args, Unemployed) => call.result = "unemployed")

C19_Witness ==
    /\ Classified
    /\ HasToken(call.args, Unemployed)
    /\ \E keyword \in highly_skilled_keywords : Contains(Lower(call.args), keyword)
    /\ \E keyword \in skilled_keywords : Contains(Lower(call.args), keyword)
    /\ call.result = "unemployed"


\* A call of extract_age has returned.
AgeExtracted == call.fn = "extract_age" /\ call.pc = "returned"

ExplicitAge == <<"a", "g", "e", ":", " ", "3", "7">>

\* C20: for every text that contains "age: 37", whatever the text
\* contains before or after it (a page number, another age, a date of
\* birth, digits that follow), the parser yields the age 37.
C20_ExplicitAge ==
    AgeExtracted =>
        (Contains(call.args, ExplicitAge) => call.result = <<37>>)

\* The text "page: 12 age: 37" has yielded no age.
C20_PageNumberTaken ==
    /\ AgeExtracted
    /\ call.args = <<"p", "a", "g", "e", ":", " ", "1", "2">> \o <<" ">> \o ExplicitAge
    /\ call.result = <<>>

\* What extract_age does yield: the number of the first statement with
\* "age" in the text when it is between 18 and 100, so 37 when nothing
\* that reads as an age stands before "age: 37" and no digit follows it.
FirstAgeStatement ==
    AgeExtracted =>
        \A rest \in AgeTexts :
            /\ call.args = ExplicitAge \o rest
            /\ rest # <<>> => ~IsDigit(rest[1])
            => call.result = <<37>>


\* A call of classify_loan_purpose has returned.
PurposeClassified ==
    call.fn = "classify_loan_purpose" /\ call.pc = "returned"

\* The text has no keyword of any of the seven keyword sets, in capitals
\* or not.
NoPurposeKeyword(text) ==
    \A k \in 1..Len(purposes) :
        \A keyword \in purposes[k].keywords : ~Contains(Lower(text), keyword)

\* C21: for every text that has no keyword of any of the seven purpose
\* keyword sets and no purpose field, classify_loan_purpose returns
\* "vacation/others".
C21_PurposeDefault ==
    PurposeClassified =>
        (NoPurposeKeyword(call.args) => call.result = "vacation/others")

C21_Witness ==
    /\ PurposeClassified
    /\ call.args = <<"t", "r", "i", "p">> \o <<" ">> \o <<"t", "r", "i", "p">>
    /\ NoPurposeKeyword(call.args)
    /\ call.result = "vacation/others"



\* A call of parse_credit_fields has ended.
Parsed == call.fn = "parse_credit_fields" /\ call.pc = "returned"

\* C22: for the text "Age: 45 years. Occupation: unemployed. Housing: own.
\* Loan amount: Rs. 50000. Duration: 24 months. Purpose: education."
\* parse_credit_fields returns age 45, job unemployed, housing own,
\* credit_amount 50000.0, duration 24, purpose education, no gender,
\* savings little and checking little.
C22_EndToEnd ==
    Parsed /\ call.args = SampleText =>
        call.result =
            Returned([age |-> <<45>>, gender |-> NULL, job |-> "unemployed",
                      housing |-> "own", saving_accounts |-> "little",
                      checking_account |-> "little",
                      credit_amount |-> <<Amount(50000)>>,
                      duration |-> <<24>>, purpose |-> "education"])

C22_Witness ==
    /\ Parsed
    /\ call.args = SampleText
    /\ Len(call.args) = 117
    /\ ~call.result.raised
    /\ call.result.value.job = "unemployed"
    /\ call.result.value.credit_amount = <<Amount(50000)>>


\* What the amount rule finds in the text of the call for an account word.
AmountFound(account_type) == extract_account_amount(call.args, account_type)

SavingsWord == <<"s", "a", "v", "i", "n", "g">>
CheckingWord == <<"c", "h", "e", "c", "k", "i", "n", "g">>

\* The first keyword rule of the savings level that matches, if any.
SavingsByWords ==
    LET text_lower == Lower(call.args)
    IN  IF Found(text_lower, savings_pattern(savings_none)) THEN "none"
        ELSE IF Found(text_lower, savings_pattern(savings_little)) THEN "little"
        ELSE IF Found(text_lower, savings_pattern(savings_quite_rich))
        THEN "quite rich"
        ELSE IF Found(text_lower, savings_pattern(savings_rich)) THEN "rich"
        ELSE IF Found(text_lower, savings_pattern(savings_moderate))
        THEN "moderate"
        ELSE "little"

CheckingByWords ==
    LET text_lower == Lower(call.args)
    IN  IF Found(text_lower, checking_pattern(savings_none)) THEN "none"
        ELSE IF Found(text_lower, checking_pattern(savings_little)) THEN "little"
        ELSE IF Found(text_lower, checking_pattern(checking_rich)) THEN "rich"
        ELSE IF Found(text_lower, checking_pattern(savings_moderate))
        THEN "moderate"
        ELSE "little"

\* C23: whenever the amount rule finds a number n, the level is decided by
\* n alone (savings: 0 none, below 1000 little, below 10000 moderate, below
\* 50000 quite rich, else rich; checking: 0 none, below 500 little, below
\* 5000 moderate, else rich); the keyword rules and the default little
\* apply only when no number is found.
C23_BalanceBucketing ==
    /\ call.fn = "classify_savings_level" /\ call.pc = "returned" =>
         LET n == AmountFound(SavingsWord)
         IN  /\ n # <<>> /\ n[1] = 0 => call.result = "none"
             /\ n # <<>> /\ 0 < n[1] /\ n[1] < 100000 => call.result = "little"
             /\ n # <<>> /\ 100000 <= n[1] /\ n[1] < 1000000 =>
                    call.result = "moderate"
             /\ n # <<>> /\ 1000000 <= n[1] /\ n[1] < 5000000 =>
                    call.result = "quite rich"
             /\ n # <<>> /\ 5000000 <= n[1] => call.result = "rich"
             /\ n = <<>> => call.result = SavingsByWords
    /\ call.fn = "classify_checking_level" /\ call.pc = "returned" =>
         LET n == AmountFound(CheckingWord)
         IN  /\ n # <<>> /\ n[1] = 0 => call.result = "none"
             /\ n # <<>> /\ 0 < n[1] /\ n[1] < 50000 => call.result = "little"
             /\ n # <<>> /\ 50000 <= n[1] /\ n[1] < 500000 =>
                    call.result = "moderate"
             /\ n # <<>> /\ 500000 <= n[1] => call.result = "rich"
             /\ n = <<>> => call.result = CheckingByWords

\* A text with a word of the rich rule after one account word and a small
\* balance after another: the level is that of the balance.
C23_Witness ==
    /\ call.fn = "classify_savings_level"
    /\ call.pc = "returned"
    /\ AmountFound(SavingsWord) = <<500>>
    /\ SavingsByWords = "rich"
    /\ call.result = "little"


\* The steps of run_full_analysis_background in the order of its text; the
\* parse and the validation are the end of the step "page".
StepOrder ==
    <<"download", "page", "risk", "compliance", "crossverify", "store",
      "heatmap", "set_done", "returned">>

StepNumber(step) == CHOOSE k \in 1..Len(StepOrder) : StepOrder[k] = step

Steps == {StepOrder[k] : k \in 1..Len(StepOrder)}

\* An invocation comes to a step after the first only from the step before.
InOrder(p) ==
    inv'[p].pc # inv[p].pc /\ inv'[p].pc \in Steps \ {"download"} =>
        /\ inv[p].pc \in Steps
        /\ StepNumber(inv'[p].pc) = StepNumber(inv[p].pc) + 1

\* The scoring calls made so far are the first of risk, compliance and
\* cross-verification, one of each and in this order.
CallsInOrder(p) ==
    LET made == inv'[p].calls
        all  == <<"predict", "compliance", "crossverify">>
    IN  /\ Len(made) <= 3
        /\ made = SubSeq(all, 1, Len(made))
        /\ inv'[p].pc \in {"store", "heatmap", "set_done", "returned"} =>
               made = all

\* The invocation writes the status done.
WritesDone(p) ==
    /\ inv[p].pc = "set_done"
    /\ inv'[p].pc = "returned"
    /\ status' = UpdateStatus(inv[p].document_id, "done")

\* C24: in every run the steps come in the order extraction, parse and
\* validation, risk, compliance, cross-verification, insert of the record,
\* heatmap, status done; each scoring call is made exactly once; and done
\* is written only after the record of the run has been inserted.
C24_StepOrder ==
    [][\A p \in Procs :
          /\ InOrder(p)
          /\ inv'[p].pc \in Steps => CallsInOrder(p)
          /\ inv'[p].pc = "returned" /\ inv[p].pc # "returned" =>
                /\ WritesDone(p)
                /\ inv[p].ins = <<"full">>
                /\ \E k \in 1..Len(analyses) :
                      analyses[k].id = inv[p].analysis_id]_vars

C24_Witness ==
    \E p \in Procs :
        /\ inv[p].pc = "returned"
        /\ inv[p].calls = <<"predict", "compliance", "crossverify">>
        /\ inv[p].ins = <<"full">>
        /\ status[inv[p].document_id] = "done"


\* The domain of the nine fields of a parse.
ParsedInDomain(fields) ==
    /\ fields.age = <<>> \/ (18 <= fields.age[1] /\ fields.age[1] <= 100)
    /\ fields.gender \in {NULL, "male", "female"}
    /\ fields.credit_amount = <<>> \/ fields.credit_amount[1] > 0
    /\ fields.duration = <<>>
           \/ (1 <= fields.duration[1] /\ fields.duration[1] <= 120)
    /\ fields.job \in {"unskilled", "skilled", "highly skilled", "unemployed"}
    /\ fields.housing \in {"own", "rent", "free"}
    /\ fields.saving_accounts \in
           {"none", "little", "moderate", "quite rich", "rich"}
    /\ fields.checking_account \in {"none", "little", "moderate", "rich"}
    /\ fields.purpose \in
           {"business", "car", "domestic appliances", "education",
            "furniture/equipment", "radio/TV", "repairs", "vacation/others"}

\* C25: for every text parse_credit_fields returns without raising, with
\* age absent or in 18..100, gender absent or male or female, credit_amount
\* absent or positive, duration absent or in 1..120, and job, housing,
\* savings, checking and purpose in their enumerations.
C25_OutputDomain ==
    Parsed => ~call.result.raised /\ ParsedInDomain(call.result.value)

\* A duration of 4301 digits: int() raises where it is limited.
C25_LongDurationRaises ==
    /\ Parsed
    /\ call.args = LongDurationText
    /\ call.limited
    /\ call.result.raised

\* A parse that returns has its fields in the domain.
DomainWhenReturned ==
    Parsed /\ ~call.result.raised => ParsedInDomain(call.result.value)


\* An age statement below the range, and a date of birth that gives an
\* age in the range.
AgeBelowRange == <<"a", "g", "e", ":", " ", "1", "7">>
DateOfBirth == <<"d", "o", "b", ":", " ", "0", "1", "/", "0", "1", "/", "1", "9", "9", "0">>

\* The statement is the only explicit age statement of the text: the text
\* has the word "age" once, in the statement, and no "years old".
OnlyAgeStatement(text, statement) ==
    /\ Contains(text, statement)
    /\ Cardinality({i \in 1..Len(text) :
                      i + 2 <= Len(text)
                      /\ SubSeq(text, i, i + 2) = <<"a", "g", "e">>}) = 1
    /\ ~Contains(text, <<"y", "e", "a", "r", "s", " ", "o", "l", "d">>)

\* No digit follows the statement.
NoDigitAfter(text, statement) ==
    \A i \in 1..Len(text) :
        i + Len(statement) <= Len(text)
        /\ SubSeq(text, i, i + Len(statement) - 1) = statement
        => ~IsDigit(text[i + Len(statement)])

\* C26: when the text has an explicit age statement, the date of birth is
\* not consulted: the result is the number of the statement when it is in
\* 18..100 and absent otherwise, also when the text has a date of birth
\* that gives an age in the range.
C26_ExplicitBeforeDob ==
    AgeExtracted =>
        /\ OnlyAgeStatement(call.args, AgeBelowRange) => call.result = <<>>
        /\ OnlyAgeStatement(call.args, ExplicitAge)
           /\ NoDigitAfter(call.args, ExplicitAge) => call.result = <<37>>

\* The text "age: 17 dob: 01/01/1990" has yielded the age of the date of
\* birth.
C26_DobConsulted ==
    /\ AgeExtracted
    /\ call.args = AgeBelowRange \o <<" ">> \o DateOfBirth
    /\ call.result = <<CurrentYear - 1990>>

\* What does hold: an explicit age in the range is the result, whatever
\* date of birth the text has.
ExplicitInRangeBeforeDob ==
    AgeExtracted =>
        (OnlyAgeStatement(call.args, ExplicitAge)
         /\ NoDigitAfter(call.args, ExplicitAge) => call.result = <<37>>)

\* An explicit age below the range is passed over only for a date of
\* birth: without one the result is absent.
BelowRangeWithoutDob ==
    AgeExtracted =>
        (OnlyAgeStatement(call.args, AgeBelowRange)
         /\ ~Contains(call.args, DateOfBirth) => call.result = <<>>)


\* The text has a keyword of the set, in capitals or not.
HasKeyword(text, keywords) ==
    \E keyword \in keywords : Contains(Lower(text), keyword)

\* The text has a word of the unemployed family, or a generic mention of
\* an employment, as a word of its own.
HasWordOf(text, words) == SearchWords(Lower(text), words)

\* C27: for every text with no keyword of the unemployed family,
\* classify_job_category returns the first of highly skilled, skilled and
\* unskilled that has a keyword in the text; with no keyword of the three
\* sets it returns skilled when the text has a generic mention of an
\* employment (employed, occupation, profession, job, work, working) and
\* unemployed otherwise.
C27_JobCascade ==
    Classified /\ ~HasWordOf(call.args, unemployed_patterns) =>
        /\ HasKeyword(call.args, highly_skilled_keywords) =>
               call.result = "highly skilled"
        /\ ~HasKeyword(call.args, highly_skilled_keywords)
           /\ HasKeyword(call.args, skilled_keywords) =>
               call.result = "skilled"
        /\ ~HasKeyword(call.args, highly_skilled_keywords)
           /\ ~HasKeyword(call.args, skilled_keywords)
           /\ HasKeyword(call.args, unskilled_keywords) =>
               call.result = "unskilled"
        /\ ~HasKeyword(call.args, highly_skilled_keywords)
           /\ ~HasKeyword(call.args, skilled_keywords)
           /\ ~HasKeyword(call.args, unskilled_keywords) =>
               call.result = IF HasWordOf(call.args, employment_patterns)
                             THEN "skilled" ELSE "unemployed"

\* A text with keywords of all three classes and no word of the
\* unemployed family: highly skilled.
C27_Witness ==
    /\ Classified
    /\ ~HasWordOf(call.args, unemployed_patterns)
    /\ HasKeyword(call.args, highly_skilled_keywords)
    /\ HasKeyword(call.args, skilled_keywords)
    /\ HasKeyword(call.args, unskilled_keywords)
    /\ call.result = "highly skilled"

\* The last two steps of the cascade are reached: a text with the word
\* job and no keyword is skilled, and a text with neither is unemployed.
JobMentionReached ==
    /\ Classified
    /\ ~HasWordOf(call.args, unemployed_patterns)
    /\ ~HasKeyword(call.args, highly_skilled_keywords)
    /\ ~HasKeyword(call.args, skilled_keywords)
    /\ ~HasKeyword(call.args, unskilled_keywords)
    /\ HasWordOf(call.args, employment_patterns)
    /\ call.result = "skilled"


\* The requests made so far for the document, all of them uploads and
\* POST /analyze, and all of them ended.
RunsOnly(d) ==
    /\ Quiet
    /\ \A k \in 1..Len(history) : history[k][1] # "rerun"

RunsOf(d) == Cardinality({k \in 1..Len(history) : history[k][2] = d})

\* C28: run_full_analysis_background never deletes or overwrites a stored
\* row, and each invocation that ends adds one record and one further set
\* of extracted_texts rows: with no rerun, a document has as many records
\* as run invocations have ended for it, and as many sets of rows.
C28_OneRecordPerRun ==
    \A d \in Docs :
        RunsOnly(d) =>
            /\ Len(RecordsOf(d)) = RunsOf(d)
            /\ Len(TextsOf(d)) = RunsOf(d) * Len(pdf[d])

\* One upload, no other request: its run has ended and has left two
\* records.
C28_TwoRecordsOneRun ==
    \E d \in Docs :
        /\ RunsOnly(d)
        /\ RunsOf(d) = 1
        /\ Len(RecordsOf(d)) = 2
        /\ inv[1].fails = {"done_update"}

\* s is the beginning of t.
IsPrefix(s, t) == Len(s) <= Len(t) /\ s = SubSeq(t, 1, Len(s))

\* A step of run_full_analysis_background is taken: no invocation is at a
\* step of rerun_analysis before the pipeline.
RunStep ==
    \A p \in Procs :
        /\ inv[p].pc \notin {"rerun_status", "rerun_delete_analyses",
                             "rerun_delete_texts"}
        /\ inv'[p].pc \notin {"rerun_status", "rerun_delete_analyses",
                              "rerun_delete_texts"}

\* What does hold: the steps of the pipeline only add rows to the three
\* tables, whatever fails.
RunOnlyAddsRows ==
    [][RunStep =>
          /\ IsPrefix(analyses, analyses')
          /\ IsPrefix(extracted_texts, extracted_texts')
          /\ IsPrefix(heatmaps, heatmaps')]_vars

\* And while no store or storage call has failed, a document has one
\* record and one set of rows per ended run.
OneRecordPerRunUnlessFault ==
    \A d \in Docs :
        RunsOnly(d) /\ budget = MaxFaults =>
            /\ Len(RecordsOf(d)) = RunsOf(d)
            /\ Len(TextsOf(d)) = RunsOf(d) * Len(pdf[d])

\* Three records of a document without a rerun, a fault or concurrency.
RecordsAccumulate ==
    \E d \in Docs :
        /\ RunsOnly(d)
        /\ budget = MaxFaults
        /\ Len(RecordsOf(d)) = MaxOps


\* The full records of the table analyses.
FullRecords == {k \in 1..Len(analyses) : IsFullRecord(analyses[k])}

\* The outcomes stored for the compliance and the cross-verification call
\* depend on the answer of their own service alone: the fallback when the
\* call has failed, the answer otherwise.
OthersByOwnService(r) ==
    /\ r.compliance =
          IF ml.compliance \in MLFailures
          THEN [compliance_score |-> "1.0", violations |-> <<>>,
                status |-> "not_available"]
          ELSE [compliance_score |-> "0.9", violations |-> <<>>,
                status |-> "compliant"]
    /\ r.crossverify =
          IF ml.crossverify \in MLFailures
          THEN [overall_score |-> "1.0", discrepancies |-> <<>>,
                status |-> "not_available"]
          ELSE [overall_score |-> "0.9", discrepancies |-> <<>>,
                status |-> NULL]

\* C29 as stated: the outcome stored for a failed scoring call is a fixed
\* value that depends neither on the parsed fields nor on the kind of
\* failure, so that stored for a failed risk call is what any other kind
\* of failure gives; and a failure of one call leaves the outcomes of the
\* other two unchanged.
C29_AsStated ==
    \A k \in FullRecords :
        /\ OthersByOwnService(analyses[k])
        /\ ml.predict \in MLFailures =>
              \A kind \in MLFailures :
                  analyses[k].risk.raw_ml_response =
                      call_risk_prediction(analyses[k].risk.parsed_fields, kind)

\* C29, amended: a failed compliance call is stored with compliance_score
\* 1.0, no violations and status not_available, a failed crossverify call
\* with overall_score 1.0, no discrepancies and status not_available, a
\* failed risk call with prediction and risk_score empty and status
\* unavailable, whatever the parsed fields and the kind of failure; the
\* stored risk carries in addition the message of the failure; and the
\* outcome of each call depends on the answer of its own service alone.
C29_FixedFallbacks ==
    \A k \in FullRecords :
        LET r == analyses[k]
        IN  /\ OthersByOwnService(r)
            /\ ml.predict \in MLFailures =>
                  /\ r.risk.prediction = NULL
                  /\ r.risk.risk_score = NULL
                  /\ r.risk.raw_ml_response.status = "unavailable"
                  /\ r.risk.raw_ml_response.error = call_ml_error(ml.predict)
            /\ ml.predict \notin MLFailures =>
                  /\ r.risk.prediction = "1"
                  /\ r.risk.risk_score = "0.35"
                  /\ r.risk.raw_ml_response.status = NULL

\* A record of a run in which the risk call timed out, the compliance
\* call failed and the cross-verification was answered.
C29_Witness ==
    \E k \in FullRecords :
        /\ ml.predict = "timeout"
        /\ ml.compliance \in MLFailures
        /\ ml.crossverify = "ok"
        /\ analyses[k].risk.risk_score = NULL
        /\ analyses[k].risk.raw_ml_response.error = call_ml_error("timeout")
        /\ analyses[k].compliance.status = "not_available"
        /\ analyses[k].crossverify.overall_score = "0.9"


\* delete_user_data_on_logout has returned.
LoggedOut ==
    call.fn = "delete_user_data_on_logout" /\ call.pc = "returned"

\* The tables from which rows of the user of the call have been deleted.
DeletedFrom ==
    {t \in UserTables :
        call.user_id \in call.before.rows[t] \ user_data.rows[t]}

\* No row of another user has been deleted, and no certificate.
OthersKept ==
    /\ \A t \in UserTables :
          user_data.rows[t] \cup {call.user_id}
              = call.before.rows[t] \cup {call.user_id}
    /\ user_data.rows["blockchain_certificates"]
           = call.before.rows["blockchain_certificates"]

\* The first two parts of C30: with remember_me nothing is deleted and
\* False returned; without it, or without a readable profile, and with no
\* store call failing, all rows of the user are deleted from the five
\* tables, the certificates are left, and True is returned.
KeptOrDeleted ==
    LoggedOut =>
        /\ OthersKept
        /\ call.remember_me = TRUE =>
              /\ call.result = FALSE
              /\ user_data.rows = call.before.rows
        /\ call.remember_me = FALSE /\ call.faults = 0 =>
              /\ call.result = TRUE
              /\ \A t \in UserTables : call.user_id \notin user_data.rows[t]

\* C30: delete_user_data_on_logout deletes nothing and returns False when
\* remember_me is true; when it is false or the profile cannot be read,
\* and the store works, it deletes all rows of the user from
\* extracted_texts, heatmaps, analyses, dossiers and documents, leaves the
\* certificates, and returns True; and it returns False only when no row
\* of the user has been deleted.
C30_LogoutCleanup ==
    /\ KeptOrDeleted
    /\ LoggedOut /\ call.result = FALSE => DeletedFrom = {}

\* The rows of a user with remember_me on are kept.
RememberedKept ==
    /\ LoggedOut
    /\ call.remember_me = TRUE
    /\ call.before.rows["documents"] = Users
    /\ user_data = call.before

\* The rows of a user whose profile could not be read are deleted although
\* the profile has remember_me on.
UnreadDeleted ==
    /\ LoggedOut
    /\ call.unread
    /\ call.user_id \in call.before.remember_me
    /\ call.result = TRUE
    /\ DeletedFrom = UserTables
    /\ call.user_id \in user_data.rows["blockchain_certificates"]

\* False is returned after the rows of extracted_texts have been deleted:
\* the delete of the heatmaps has failed.
C30_DeletedButFalse ==
    /\ LoggedOut
    /\ call.result = FALSE
    /\ call.remember_me = FALSE
    /\ ~call.unread
    /\ call.faults = 1
    /\ DeletedFrom = {"extracted_texts"}
    /\ call.user_id \in user_data.rows["documents"]

====
